---- MODULE Spec2Model ----
(***************************************************************************)
(* State-machine model of the code scanner:                                *)
(*   - src/Test.py: the Streamlit page main() with its session state, and  *)
(*     CodeAnalyzer.analyze_codebase with the operations it folds over the *)
(*     files of an uploaded archive (analyze_file, the extractors, the     *)
(*     catalog scans, analyze_data_flow, detect_architecture_patterns);    *)
(*   - src/code_analyzer/llm_analyzer.py and src/main.py: the calls to the *)
(*     external language model and the per-file loop that issues them.     *)
(*                                                                         *)
(* A Python str is a sequence of tokens (a token is a TLA+ string that     *)
(* stands for a run of characters), so that concatenation, split('/'),     *)
(* endswith and `in` are computed and ids built from different pieces can  *)
(* be compared.  A Python exception is an explicit outcome: an operator    *)
(* that can raise returns [exc |-> <name>, ...], and the state machine     *)
(* follows the handlers the source has for it.                             *)
(***************************************************************************)
EXTENDS Integers, Sequences, FiniteSets, TLC

VARIABLES
    pc,               \* position of the page script of src/Test.py
    uploaded,         \* the archive in the file uploader, or NoUpload
    api_key,          \* the sidebar's API key text ("" when empty)
    scan_results,     \* st.session_state.scan_results
    scan_time,        \* st.session_state.scan_time
    last_file_hash,   \* st.session_state.last_file_hash
    shown_errors,     \* st.error messages of the current rerun
    runs,             \* reruns of the page so far
    openai_client,    \* CodeAnalyzer.openai_client of the current run
    disk,             \* the files of temp_dir/extracted
    pos,              \* index of os.walk's next file in uploaded.files
    analyzed,         \* paths analyze_file was called on in the current run
    files_data, language_data, all_functions, all_classes, all_variables,
    db_connections, api_usage, framework_usage, total_lines,
    detected_databases, detected_apis, detected_frameworks,
    results,          \* what analyze_codebase returned (or how it ended)
    batch,            \* state of the src/main.py loop and the LLMAnalyzer calls
    call              \* a single call of one operation: its arguments and return

scanVars == <<openai_client, disk, analyzed, files_data, language_data,
              all_functions, all_classes, all_variables, db_connections,
              api_usage, framework_usage, total_lines, detected_databases,
              detected_apis, detected_frameworks>>
sessionVars == <<scan_results, scan_time, last_file_hash>>
pageVars == <<pc, uploaded, api_key, shown_errors, runs, results>>
vars == <<pageVars, sessionVars, scanVars, pos, batch, call>>

\* ----------------------------------------------------------------- bounds
MaxFiles == 3      \* archive entries walked in one run
MaxRuns == 2       \* reruns of the page in one session
MaxBatch == 6      \* files of one src/main.py batch
MaxArchFiles == 10 \* file records of one detect_architecture_patterns call
MaxHits == 3       \* catalog patterns that occur in one scanned text
MaxDefs == 3       \* function definitions of one Python source
MaxParams == 3     \* parameters of one function declaration
MaxItems == 2      \* entries of one list of a project structure

\* ---------------------------------------------------------------- helpers
Range(s) == {s[i] : i \in DOMAIN s}
Get(r, k, d) == IF k \in DOMAIN r THEN r[k] ELSE d
Last(s) == s[Len(s)]
NoneRec == [is_none |-> TRUE]
IsNone(v) == "is_none" \in DOMAIN v

RECURSIVE Flatten(_)
Flatten(ss) == IF ss = <<>> THEN <<>> ELSE Head(ss) \o Flatten(Tail(ss))

\* All enumerations of a finite set as a sequence without repetition.
RECURSIVE Orderings(_)
Orderings(S) ==
    IF S = {} THEN {<<>>}
    ELSE UNION {{<<x>> \o o : o \in Orderings(S \ {x})} : x \in S}

\* str.endswith, the `in` of two strs, and str.split(sep)
EndsWith(s, suf) ==
    /\ Len(suf) <= Len(s)
    /\ SubSeq(s, Len(s) - Len(suf) + 1, Len(s)) = suf
IsSubstr(sub, s) ==
    \E i \in 1..(Len(s) - Len(sub) + 1) \cup {1} :
        /\ i + Len(sub) - 1 <= Len(s)
        /\ SubSeq(s, i, i + Len(sub) - 1) = sub
RECURSIVE SplitFrom(_, _, _, _)
SplitFrom(s, sep, i, cur) ==
    IF i > Len(s) THEN <<cur>>
    ELSE IF s[i] = sep THEN <<cur>> \o SplitFrom(s, sep, i + 1, <<>>)
    ELSE SplitFrom(s, sep, i + 1, Append(cur, s[i]))
Split(s, sep) == SplitFrom(s, sep, 1, <<>>)

\* str.lower() on the tokens that have upper-case letters
LowerTok(t) ==
    CASE t = "Models" -> "models"
      [] t = "UserModel" -> "usermodel"
      [] t = "UserView" -> "userview"
      [] t = "UserController" -> "usercontroller"
      [] t = "Report" -> "report"
      [] t = "Foo" -> "foo"
      [] t = "Dockerfile" -> "dockerfile"
      [] t = "DB:" -> "db:"
      [] t = "MySQL" -> "mysql"
      [] t = "API" -> "api"
      [] t = "Makefile" -> "makefile"
      [] OTHER -> t
Lower(s) == [i \in DOMAIN s |-> LowerTok(s[i])]

\* The keywords of the source that occur inside a (lower-case) token: the
\* character-level `kw in text` restricted to the tokens of the model.
KeywordsIn(t) ==
    CASE t = "models" -> {"model"}
      [] t = "views" -> {"view"}
      [] t = "controllers" -> {"controller"}
      [] t = "user_view" -> {"view"}
      [] t = "user_controller" -> {"controller"}
      [] t = "usermodel" -> {"model"}
      [] t = "userview" -> {"view"}
      [] t = "usercontroller" -> {"controller"}
      [] t = "api" -> {"api"}
      [] t = "etl" -> {"etl"}
      [] t = "dockerfile" -> {"dockerfile"}
      [] t = "services" -> {"service"}
      [] t = "endpoints" -> {"endpoint"}
      [] t = "handlers" -> {"handler"}
      [] t = "events" -> {"event"}
      [] OTHER -> {}
\* kw in text.lower(), for a keyword kw that lies within one token
HasKeyword(text, kw) ==
    \E i \in DOMAIN text : LowerTok(text[i]) = kw \/ kw \in KeywordsIn(LowerTok(text[i]))

\* ------------------------------------------------------ python dict values
\* A dict is the sequence of its items [k, v] in insertion order.
DictHas(d, key) == \E i \in DOMAIN d : d[i].k = key
DictGet(d, key, default) ==
    IF DictHas(d, key) THEN d[CHOOSE i \in DOMAIN d : d[i].k = key].v ELSE default
DictSet(d, key, val) ==
    IF DictHas(d, key)
    THEN [i \in DOMAIN d |-> IF d[i].k = key THEN [k |-> key, v |-> val] ELSE d[i]]
    ELSE Append(d, [k |-> key, v |-> val])
DictValues(d) == [i \in DOMAIN d |-> d[i].v]

\* ---------------------------------------------------------------- catalogs
\* Each catalog keeps its declaration order; a pattern is the token that an
\* occurrence of it leaves in a file's text.
LANGUAGE_EXTENSIONS ==
    << [k |-> ".py", v |-> "Python"], [k |-> ".js", v |-> "JavaScript"],
       [k |-> ".jsx", v |-> "JavaScript (React)"], [k |-> ".java", v |-> "Java"] >>
BINARY_EXTENSIONS == {".jpg", ".jpeg", ".png", ".gif", ".pdf", ".bin", ".exe",
                      ".zip", ".tar", ".gz", ".7z", ".rar", ".so", ".dll"}
DB_PATTERNS ==
    << [k |-> "MySQL", v |-> {"mysql.connector", "pymysql"}],
       [k |-> "PostgreSQL", v |-> {"psycopg2", "postgresql://"}],
       [k |-> "SQLite", v |-> {"sqlite3"}],
       [k |-> "MongoDB", v |-> {"pymongo"}] >>
API_PATTERNS ==
    << [k |-> "REST API", v |-> {"axios", "requests."}],
       [k |-> "GraphQL", v |-> {"graphql"}],
       [k |-> "Message Queue", v |-> {"kafka"}],
       [k |-> "ETL Process", v |-> {"airflow", "etl"}],
       [k |-> "File System", v |-> {"readFile", "S3"}],
       [k |-> "Cloud Storage", v |-> {"S3", "bucket"}] >>
FRAMEWORK_PATTERNS ==
    << [k |-> "Web Framework",
        v |-> << [k |-> "Django", v |-> {"django"}],
                 [k |-> "Flask", v |-> {"flask"}],
                 [k |-> "Express", v |-> {"express"}],
                 [k |-> "React", v |-> {"react"}] >>],
       [k |-> "DevOps",
        v |-> << [k |-> "Docker", v |-> {"Dockerfile"}] >>] >>

\* ------------------------------------------------------------- file paths
\* Tokens that begin with a '.'
DotTokens == {".py", ".js", ".jsx", ".java", ".png", ".git", ".txt", ".am", ".in",
              ".gitignore", ".dockerignore"}
PathParts(path) == Split(path, "/")
Basename(path) == Last(PathParts(path))
\* pathlib.Path(p).suffix.lower(): the last '.'-piece of the final component,
\* unless the component is nothing but that piece
Suffix(path) ==
    LET name == Basename(path)
    IN  IF Len(name) > 1 /\ Last(name) \in DotTokens THEN LowerTok(Last(name)) ELSE ""
IsHidden(path) ==
    \E i \in DOMAIN PathParts(path) :
        /\ PathParts(path)[i] # <<>>
        /\ PathParts(path)[i][1] \in DotTokens
LanguageOf(extension) == DictGet(LANGUAGE_EXTENSIONS, extension, "Other")

\* -------------------------------------------------------------- exceptions
Ok(v) == [exc |-> "none", val |-> v]
Raise(e) == [exc |-> e]
Raised(r) == r.exc # "none"

\* ----------------------------------------------------------- file contents
\* What a file's text holds, as far as the extractors and scans read it:
\*   parse    what ast.parse does with it ("ok" or "SyntaxError")
\*   lines    content.count('\n') + 1
\*   funcs    the function declarations, in order: [name, cls] (cls "None"
\*            for a function outside any class)
\*   classes  the class declarations: [name, bases], bases being the text
\*            between the parentheses of the base list, or unmatched when
\*            the declaration has no base list ('class Foo:')
\*   vars     the assignments: [name, skip, in_class] (skip: the name begins
\*            with '_' or is upper-case)
\*   text     the catalog patterns that occur in the raw text
\*   imports  what the language's import regex of analyze_data_flow finds
NoBases == [matched |-> FALSE]
Bases(names) == [matched |-> TRUE, names |-> names]
Content(parse, lines, funcs, classes, vs, text, imports) ==
    [parse |-> parse, lines |-> lines, funcs |-> funcs, classes |-> classes,
     vars |-> vs, text |-> text, imports |-> imports]

cModel ==
    Content("ok", 3, << [name |-> "save", cls |-> "UserModel"] >>,
            << [name |-> "UserModel", bases |-> NoBases] >>,
            << [name |-> "table", skip |-> FALSE, in_class |-> TRUE] >>,
            {"pymysql"}, << <<"app", ".", "views">>, <<"user_view">> >>)
cView ==
    Content("ok", 2, << [name |-> "render", cls |-> "None"] >>,
            << [name |-> "UserView", bases |-> Bases(<<"Base">>)] >>,
            << >>, {"pymysql", "psycopg2", "requests.", "django"}, << <<"app">> >>)
cController ==
    Content("SyntaxError", 2, << [name |-> "save", cls |-> "None"] >>,
            << [name |-> "UserController", bases |-> Bases(<<"Base">>)] >>,
            << [name |-> "_x", skip |-> TRUE, in_class |-> FALSE] >>,
            {"psycopg2", "graphql"}, << >>)
cReport ==
    Content("ok", 1, << >>, << >>,
            << [name |-> "total", skip |-> FALSE, in_class |-> FALSE] >>,
            {"S3"}, << >>)
cBroken ==
    Content("SyntaxError", 2, << [name |-> "run", cls |-> "None"] >>,
            << [name |-> "Foo", bases |-> NoBases] >>, << >>, {"sqlite3"}, << >>)
cClient ==
    Content("SyntaxError", 4, << [name |-> "load", cls |-> "None"] >>, << >>,
            << [name |-> "url", skip |-> FALSE, in_class |-> FALSE] >>,
            {"axios", "react"}, << <<"user">> >>)
cNotes ==
    Content("SyntaxError", 1, << >>, << >>, << >>, {"pymysql"}, << >>)
cBlob ==
    Content("SyntaxError", 1, << >>, << >>, << >>, {}, << >>)

\* An archive entry: its path relative to the extraction root, whether the
\* process may open it, its size, and its content.
Entry(path, readable, size, content) ==
    [path |-> path, readable |-> readable, size |-> size, content |-> content]

pModels == <<"app", "/", "Models", "/", "user", ".py">>
pViews == <<"app", "/", "views", "/", "user_view", ".py">>
pControllers == <<"app", "/", "controllers", "/", "user_controller", ".py">>
pModelsViews == <<"app", "/", "models", "/", "views", "/", "report", ".py">>
pBroken == <<"lib", "/", "broken", ".py">>
pLocked == <<"lib", "/", "locked", ".py">>
pClient == <<"web", "/", "api", "/", "client", ".js">>
pDbNamed == <<"DB:", "MySQL">>
pGit == <<".git", "/", "config">>
pLogo == <<"logo", ".png">>

\* The entries an archive is made of, in one order of the directory walk
FilePool ==
    << Entry(pGit, TRUE, 10, cBlob),
       Entry(pDbNamed, TRUE, 10, cNotes),
       Entry(pControllers, TRUE, 20, cController),
       Entry(pModelsViews, TRUE, 10, cReport),
       Entry(pModels, TRUE, 30, cModel),
       Entry(pViews, TRUE, 20, cView),
       Entry(pBroken, TRUE, 20, cBroken),
       Entry(pLocked, FALSE, 20, cModel),
       Entry(pLogo, TRUE, 10, cBlob),
       Entry(pClient, TRUE, 40, cClient) >>

\* -------------------------------------------------------------- extractors
JsFamily == {"JavaScript", "TypeScript", "JavaScript (React)", "TypeScript (React)"}

\* CodeAnalyzer.extract_functions: the ast walk for Python, the regex
\* fallback under `except SyntaxError`, the regex families of the others.
extract_functions(content, language) ==
    IF language = "Python" THEN
        IF content.parse = "ok"
        THEN Ok([i \in DOMAIN content.funcs |->
                    [name |-> content.funcs[i].name, language |-> "Python",
                     is_method |-> content.funcs[i].cls # "None",
                     class |-> content.funcs[i].cls]])
        ELSE Ok([i \in DOMAIN content.funcs |->
                    [name |-> content.funcs[i].name, language |-> "Python"]])
    ELSE IF language \in JsFamily \/ language = "Java"
    THEN Ok([i \in DOMAIN content.funcs |->
                [name |-> content.funcs[i].name, language |-> language,
                 is_method |-> content.funcs[i].cls # "None",
                 class |-> content.funcs[i].cls]])
    ELSE Ok(<< >>)

\* ----------------------------------- the parameters of extract_functions
\* The text between the parentheses of a declaration is a sequence of
\* tokens: a word (a run of \w characters) or a single other character.
Words == {"a", "b", "c", "d", "e", "g", "1", "2", "3", "None"}
RECURSIVE Strip(_)
Strip(s) ==
    IF s = << >> THEN s
    ELSE IF Head(s) = " " THEN Strip(Tail(s))
    ELSE IF Last(s) = " " THEN Strip(SubSeq(s, 1, Len(s) - 1))
    ELSE s
\* A parameter: its name and the text of its default (<< >>: no default)
Param(name, default) == [name |-> name, default |-> default]
ParamText(p) == <<p.name>> \o (IF p.default = << >> THEN << >> ELSE <<"=">> \o p.default)
RECURSIVE DeclText(_)
DeclText(params) ==
    IF params = << >> THEN << >>
    ELSE IF Len(params) = 1 THEN ParamText(params[1])
    ELSE ParamText(params[1]) \o <<",", " ">> \o DeclText(Tail(params))

\* ([^)]*)\) : the group ends at the first ')'
UpToParen(text) ==
    IF \E i \in DOMAIN text : text[i] = ")"
    THEN SubSeq(text, 1, (CHOOSE i \in DOMAIN text :
                              text[i] = ")" /\ \A j \in 1..(i - 1) : text[j] # ")") - 1)
    ELSE text
\* [p.strip().split('=')[0].strip() for p in group.split(',') if p.strip()]
SplitParameters(group) ==
    LET parts == SelectSeq(Split(group, ","), LAMBDA part : Strip(part) # << >>)
    IN  [i \in DOMAIN parts |-> Strip(Split(Strip(parts[i]), "=")[1])]

\* The Java loop: a ',' ends a part unless bracket_count, which counts '<'
\* and '>' only, is not 0
RECURSIVE JavaParts(_, _, _)
JavaParts(text, bracket_count, current_part) ==
    IF text = << >> THEN IF current_part # << >> THEN <<Strip(current_part)>> ELSE << >>
    ELSE IF Head(text) = "," /\ bracket_count = 0
    THEN <<Strip(current_part)>> \o JavaParts(Tail(text), bracket_count, << >>)
    ELSE JavaParts(Tail(text),
                   bracket_count + (IF Head(text) = "<" THEN 1
                                    ELSE IF Head(text) = ">" THEN -1 ELSE 0),
                   Append(current_part, Head(text)))
\* re.search(r'(\w+)(?:\s*=.*)?$', part): the first word that ends the part
\* or has only blanks between it and an '='
JavaParamName(part) ==
    LET fits(i) ==
            /\ part[i] \in Words
            /\ \/ i = Len(part)
               \/ \E j \in (i + 1)..Len(part) :
                      part[j] = "=" /\ \A k \in (i + 1)..(j - 1) : part[k] = " "
        found == {i \in DOMAIN part : fits(i)}
    IN  IF found = {} THEN << >>
        ELSE << <<part[CHOOSE i \in found : \A j \in found : i <= j]>> >>
JavaParameters(group) ==
    LET parts == JavaParts(Strip(group), 0, << >>)
    IN  Flatten([i \in DOMAIN parts |-> JavaParamName(parts[i])])

\* The parameter names extract_functions records for a declaration on each
\* of its paths; the Python regex wants ':' after the first ')'.
Unmatched == [matched |-> FALSE]
Matched(parameters) == [matched |-> TRUE, parameters |-> parameters]
ExtractionPaths == {"ast", "python regex", "javascript", "java"}
extract_parameters(path, params) ==
    LET text == DeclText(params)
    IN  CASE path = "ast" -> Matched([i \in DOMAIN params |-> <<params[i].name>>])
          [] path = "python regex" ->
                 IF UpToParen(text) # text THEN Unmatched
                 ELSE Matched(SplitParameters(text))
          [] path = "javascript" -> Matched(SplitParameters(UpToParen(text)))
          [] path = "java" -> Matched(JavaParameters(UpToParen(text)))

\* The regex fallback of extract_classes: match.group(2) is None for a
\* declaration without a base list, and None has no split().
ClassesByRegex(content) ==
    IF \E i \in DOMAIN content.classes : ~content.classes[i].bases.matched
    THEN Raise("AttributeError")
    ELSE Ok([i \in DOMAIN content.classes |->
                [name |-> content.classes[i].name, language |-> "Python",
                 bases |-> content.classes[i].bases.names]])

\* CodeAnalyzer.extract_classes (Python and Java only)
extract_classes(content, language) ==
    IF language = "Python" THEN
        IF content.parse = "ok"
        THEN Ok([i \in DOMAIN content.classes |->
                    [name |-> content.classes[i].name, language |-> "Python",
                     bases |-> IF content.classes[i].bases.matched
                               THEN content.classes[i].bases.names ELSE << >>]])
        ELSE ClassesByRegex(content)
    ELSE IF language = "Java"
    THEN Ok([i \in DOMAIN content.classes |->
                [name |-> content.classes[i].name, language |-> "Java"]])
    ELSE Ok(<< >>)

\* CodeAnalyzer.extract_variables: the ast walk records an assignment unless
\* its name is private or upper-case, and a class attribute once more with
\* its class; the regex paths record every assignment.
extract_variables(content, language) ==
    LET plain(v) == [name |-> v.name, language |-> language]
        attr(v) == [name |-> v.name, language |-> language, is_class_attr |-> TRUE]
        one(v) == (IF v.skip THEN << >> ELSE <<plain(v)>>)
                  \o (IF v.in_class THEN <<attr(v)>> ELSE << >>)
    IN  IF language = "Python" /\ content.parse = "ok"
        THEN Ok(Flatten([i \in DOMAIN content.vars |-> one(content.vars[i])]))
        ELSE IF language = "Python" \/ language \in JsFamily \/ language = "Java"
        THEN Ok([i \in DOMAIN content.vars |-> plain(content.vars[i])])
        ELSE Ok(<< >>)

\* A variant of the loop without the `break` and the membership test: one
\* entry for each pattern that occurs
ScanCatalogPerPattern(catalog, text) ==
    LET hit(i) == [j \in 1..Cardinality(catalog[i].v \cap text) |-> catalog[i].k]
    IN  Flatten([i \in DOMAIN catalog |-> hit(i)])

\* The loop shared by scan_for_database_connections and
\* scan_for_api_patterns: the kinds of the catalog, in its order, that have a
\* pattern occurring in the text.
ScanCatalog(catalog, text) ==
    LET hit(i) == IF catalog[i].v \cap text # {} THEN <<catalog[i].k>> ELSE << >>
    IN  Flatten([i \in DOMAIN catalog |-> hit(i)])
scan_for_database_connections(content) == ScanCatalog(DB_PATTERNS, content.text)
scan_for_api_patterns(content) == ScanCatalog(API_PATTERNS, content.text)
identify_frameworks(content) ==
    LET inCategory(c) ==
            LET names == ScanCatalog(c.v, content.text)
            IN  [i \in DOMAIN names |-> [category |-> c.k, name |-> names[i]]]
    IN  Flatten([i \in DOMAIN FRAMEWORK_PATTERNS |-> inCategory(FRAMEWORK_PATTERNS[i])])

\* CodeAnalyzer.analyze_file: an exception of an extractor leaves it.
analyze_file(content, file_extension) ==
    LET language == LanguageOf(LowerTok(file_extension))
        functions == extract_functions(content, language)
        classes == extract_classes(content, language)
        variables == extract_variables(content, language)
    IN  IF Raised(functions) THEN functions
        ELSE IF Raised(classes) THEN classes
        ELSE IF Raised(variables) THEN variables
        ELSE Ok([language |-> language,
                 lines |-> content.lines,
                 functions |-> functions.val,
                 classes |-> classes.val,
                 variables |-> variables.val,
                 db_connections |-> scan_for_database_connections(content),
                 api_patterns |-> scan_for_api_patterns(content),
                 frameworks |-> identify_frameworks(content)])

\* --------------------------------------------------------- networkx.DiGraph
\* node: dict id -> attributes; adj: dict id -> dict successor -> edge data.
RECURSIVE FoldLeft(_, _, _)
FoldLeft(Op(_, _), acc, s) ==
    IF s = << >> THEN acc
    ELSE LET next == Op(acc, Head(s))
         IN  IF next = next THEN FoldLeft(Op, next, Tail(s)) ELSE acc

NoAttrs == [k \in {} |-> TRUE]
\* dict.update(new) on a dict of attributes
Update(old, new) ==
    [k \in DOMAIN old \cup DOMAIN new |-> IF k \in DOMAIN new THEN new[k] ELSE old[k]]
EmptyGraph == [node |-> << >>, adj |-> << >>]

\* DiGraph.add_node: a new id gets its own entry; the attributes given for
\* an id that is present update the entry it has.
add_node(g, id, attrs) ==
    IF DictHas(g.node, id)
    THEN [g EXCEPT !.node = DictSet(g.node, id, Update(DictGet(g.node, id, NoAttrs), attrs))]
    ELSE [node |-> DictSet(g.node, id, attrs), adj |-> DictSet(g.adj, id, << >>)]

\* DiGraph.add_edge: an endpoint that is no node yet becomes one without
\* attributes; data given for an edge that is present updates it.
add_edge(g, u, v, data) ==
    LET g1 == IF DictHas(g.node, u) THEN g ELSE add_node(g, u, NoAttrs)
        g2 == IF DictHas(g1.node, v) THEN g1 ELSE add_node(g1, v, NoAttrs)
        succ == DictGet(g2.adj, u, << >>)
        merged == Update(DictGet(succ, v, NoAttrs), data)
    IN  [g2 EXCEPT !.adj = DictSet(g2.adj, u, DictSet(succ, v, merged))]

\* graph.edges(data=True): source by source, successor by successor
GraphEdges(g) ==
    LET from(i) == [j \in DOMAIN g.adj[i].v |->
                       [source |-> g.adj[i].k, target |-> g.adj[i].v[j].k,
                        data |-> g.adj[i].v[j].v]]
    IN  Flatten([i \in DOMAIN g.adj |-> from(i)])

\* ------------------------------------------------------- analyze_data_flow
\* f"DB:{db_type}"
DbId(db_type) == <<"DB:", db_type>>
\* set(db for connections in db_connections.values() for db in connections)
DbTypeSet(dbconns) == UNION {Range(dbconns[i].v) : i \in DOMAIN dbconns}
\* file["language"].split(" ")[0]
FirstWord(language) ==
    CASE language = "JavaScript (React)" -> "JavaScript"
      [] language = "TypeScript (React)" -> "TypeScript"
      [] OTHER -> language
ImportLanguages == {"Python", "JavaScript", "TypeScript", "Java"}
DiskFile(d, path) == CHOOSE e \in d : e.path = path

\* "Add nodes for files"
FileNodes(g, files) ==
    LET add(acc, file) ==
            IF Get(file, "has_db_connection", FALSE)
            THEN add_node(acc, file.path,
                          [type |-> "file", has_db |-> TRUE,
                           db_types |-> Get(file, "db_types", << >>)])
            ELSE add_node(acc, file.path, [type |-> "file"])
    IN  FoldLeft(add, g, files)

\* A variant that leaves the database nodes to add_edge
DatabaseNodesSkipped(g, dbOrder) == g

\* "Add nodes for databases", in the order the set is iterated
DatabaseNodes(g, dbOrder) ==
    LET add(acc, db_type) == add_node(acc, DbId(db_type), [type |-> "database"])
    IN  FoldLeft(add, g, dbOrder)

\* A variant that connects a file to its databases in one direction only
DatabaseEdgesOneWay(g, dbconns) ==
    LET perFile(acc, item) ==
            FoldLeft(LAMBDA a, db_type :
                         add_edge(a, item.k, DbId(db_type), [type |-> "uses"]),
                     acc, item.v)
    IN  FoldLeft(perFile, g, dbconns)

\* "Connect files to databases"
DatabaseEdges(g, dbconns) ==
    LET connect(acc, file_path, db_type) ==
            add_edge(add_edge(acc, file_path, DbId(db_type), [type |-> "uses"]),
                     DbId(db_type), file_path, [type |-> "used_by"])
        perFile(acc, item) ==
            FoldLeft(LAMBDA a, db_type : connect(a, item.k, db_type), acc, item.v)
    IN  FoldLeft(perFile, g, dbconns)

\* The test that resolves an import token to an analyzed file
ImportMatches(imp, path) ==
    \/ EndsWith(path, imp \o <<".py">>)
    \/ EndsWith(path, imp \o <<".js">>)
    \/ EndsWith(path, imp \o <<".ts">>)
    \/ EndsWith(path, imp \o <<".java">>)
    \/ IsSubstr(imp, path)

\* "Add import relationship edges": a file that cannot be opened, or whose
\* language has no import pattern, is passed over.
ImportEdges(g, files, d) ==
    LET perImport(acc, file, imp) ==
            FoldLeft(LAMBDA a, other :
                         IF ImportMatches(imp, other.path)
                         THEN add_edge(a, file.path, other.path, [type |-> "imports"])
                         ELSE a,
                     acc, files)
        perFile(acc, file) ==
            IF ~DiskFile(d, file.path).readable THEN acc
            ELSE IF FirstWord(file.language) \notin ImportLanguages THEN acc
            ELSE FoldLeft(LAMBDA a, imp : perImport(a, file, imp), acc,
                          DiskFile(d, file.path).content.imports)
    IN  FoldLeft(perFile, g, files)

\* "Create visualizable data": a node of another type than file and
\* database (a node that add_edge made) is not listed.
VisualNodes(g) ==
    LET one(item) ==
            LET node_type == Get(item.v, "type", "unknown")
            IN  IF node_type = "file"
                THEN << [id |-> item.k, label |-> Basename(item.k), type |-> "file",
                         has_db |-> Get(item.v, "has_db", FALSE),
                         db_types |-> Get(item.v, "db_types", << >>)] >>
                ELSE IF node_type = "database"
                THEN << [id |-> item.k,
                         label |-> SelectSeq(item.k, LAMBDA t : t # "DB:"),
                         type |-> "database"] >>
                ELSE << >>
    IN  Flatten([i \in DOMAIN g.node |-> one(g.node[i])])
VisualEdges(g) ==
    LET es == GraphEdges(g)
    IN  [i \in DOMAIN es |->
            [source |-> es[i].source, target |-> es[i].target,
             type |-> Get(es[i].data, "type", "unknown")]]

EtlApiKinds == {"REST API", "ETL Process", "File System", "Cloud Storage"}
\* A variant of the ETL rule that takes any API hit
IsEtlCandidateAnyApi(file) ==
    /\ Get(file, "has_db_connection", FALSE)
    /\ Get(file, "api_patterns", << >>) # << >>

\* "Identify potential ETL processes or data pipelines"
IsEtlCandidate(file) ==
    /\ Get(file, "has_db_connection", FALSE)
    /\ Range(Get(file, "api_patterns", << >>)) \cap EtlApiKinds # {}
EtlCandidates(files) ==
    LET one(file) ==
            IF IsEtlCandidate(file)
            THEN << [file |-> file.path,
                     db_types |-> Get(file, "db_types", << >>),
                     api_patterns |-> Get(file, "api_patterns", << >>)] >>
            ELSE << >>
    IN  Flatten([i \in DOMAIN files |-> one(files[i])])

\* CodeAnalyzer.analyze_data_flow; dbOrder is the order in which the set of
\* database kinds is iterated, d the extracted files.
analyze_data_flow(files, dbconns, dbOrder, d) ==
    LET g1 == FileNodes(EmptyGraph, files)
        g2 == DatabaseNodes(g1, dbOrder)
        g3 == DatabaseEdges(g2, dbconns)
        g4 == ImportEdges(g3, files, d)
    IN  [graph |-> [nodes |-> VisualNodes(g4), edges |-> VisualEdges(g4)],
         etl_candidates |-> EtlCandidates(files)]

\* ------------------------------------------- detect_architecture_patterns
Count(s, Test(_)) == Len(SelectSeq(s, Test))
HasPart(parts, words) == \E i \in DOMAIN parts : \E w \in words : parts[i] = <<w>>
LowerParts(file) == PathParts(Lower(file.path))

\* The loop over files_data that sets mvc_indicators: one if/elif/elif chain
\* per file.
MvcIndicators(files) ==
    LET isModels(f) == HasPart(LowerParts(f), {"model", "models"})
        isViews(f) == ~isModels(f) /\ HasPart(LowerParts(f), {"view", "views"})
        isControllers(f) ==
            /\ ~isModels(f)
            /\ ~HasPart(LowerParts(f), {"view", "views"})
            /\ HasPart(LowerParts(f), {"controller", "controllers"})
    IN  [models |-> \E i \in DOMAIN files : isModels(files[i]),
         views |-> \E i \in DOMAIN files : isViews(files[i]),
         controllers |-> \E i \in DOMAIN files : isControllers(files[i])]

MvcFinding(files, classes) ==
    LET ind == MvcIndicators(files)
        named(kw) == Count(classes, LAMBDA c : HasKeyword(<<c.name>>, kw))
    IN  IF ind.models /\ ind.views /\ ind.controllers
        THEN << [name |-> "MVC Architecture", confidence |-> "High",
                 evidence |-> <<"Directory structure contains models, views, and controllers">>] >>
        ELSE IF named("model") > 0 /\ named("view") > 0 /\ named("controller") > 0
        THEN << [name |-> "MVC Architecture", confidence |-> "Medium",
                 evidence |-> <<"Classes suggest Model-View-Controller pattern">>] >>
        ELSE << >>

MicroservicesFinding(files) ==
    LET service_files == Count(files, LAMBDA f : HasKeyword(f.path, "service"))
        docker_files == Count(files, LAMBDA f : \/ HasKeyword(f.name, "dockerfile")
                                                \/ HasKeyword(f.name, "docker-compose"))
    IN  IF docker_files > 2 /\ service_files > 3
        THEN << [name |-> "Microservices Architecture", confidence |-> "Medium",
                 evidence |-> <<"Multiple Docker files (", docker_files,
                                ") and service components (", service_files, ")">>] >>
        ELSE << >>

\* A variant whose thresholds admit exactly three files
RestApiFindingFromThree(files, apis) ==
    LET api_files == Count(files, LAMBDA f : \/ HasKeyword(f.path, "api")
                                             \/ HasKeyword(f.path, "endpoint"))
        rest_api_usage == Count(DictValues(apis), LAMBDA ps : "REST API" \in Range(ps))
    IN  IF rest_api_usage >= 3 \/ api_files >= 3
        THEN << [name |-> "REST API Architecture", confidence |-> "High",
                 evidence |-> <<"Multiple API endpoints and REST API usage detected">>] >>
        ELSE << >>

RestApiFinding(files, apis) ==
    LET api_files == Count(files, LAMBDA f : \/ HasKeyword(f.path, "api")
                                             \/ HasKeyword(f.path, "endpoint"))
        rest_api_usage == Count(DictValues(apis), LAMBDA ps : "REST API" \in Range(ps))
    IN  IF rest_api_usage > 3 \/ api_files > 3
        THEN << [name |-> "REST API Architecture", confidence |-> "High",
                 evidence |-> <<"Multiple API endpoints and REST API usage detected">>] >>
        ELSE << >>

EventDrivenFinding(files, apis) ==
    LET event_keywords == {"event", "listener", "subscriber", "publisher", "handler"}
        event_files == Count(files, LAMBDA f : \E kw \in event_keywords : HasKeyword(f.path, kw))
        message_queue_usage ==
            Count(DictValues(apis), LAMBDA ps : "Message Queue" \in Range(ps))
    IN  IF message_queue_usage > 1 \/ event_files > 3
        THEN << [name |-> "Event-driven Architecture", confidence |-> "Medium",
                 evidence |-> <<"Event-related components and message queue usage detected">>] >>
        ELSE << >>

PipelineFinding(files, dbconns) ==
    LET etl_keywords == {"etl", "pipeline", "transform", "processor"}
        etl_files == Count(files, LAMBDA f : \E kw \in etl_keywords : HasKeyword(f.path, kw))
        multiple_db_files == Count(dbconns, LAMBDA item : Len(item.v) > 1)
    IN  IF etl_files > 1 \/ multiple_db_files > 1
        THEN << [name |-> "Data Pipeline/ETL Architecture", confidence |-> "Medium",
                 evidence |-> <<"ETL components and multiple database connections in same files">>] >>
        ELSE << >>

ClientServerFinding(frameworks) ==
    LET uses(kinds) == Count(DictValues(frameworks), LAMBDA fws : Range(fws) \cap kinds # {})
        frontend_frameworks == uses({"React", "Angular", "Vue"})
        backend_frameworks == uses({"Django", "Flask", "Express", "Spring"})
    IN  IF frontend_frameworks > 0 /\ backend_frameworks > 0
        THEN << [name |-> "Client-Server Architecture", confidence |-> "High",
                 evidence |-> <<"Both frontend (", frontend_frameworks,
                                " files) and backend (", backend_frameworks,
                                " files) frameworks detected">>] >>
        ELSE << >>

detect_architecture_patterns(files, classes, frameworks, dbconns, apis) ==
    MvcFinding(files, classes) \o MicroservicesFinding(files)
    \o RestApiFinding(files, apis) \o EventDrivenFinding(files, apis)
    \o PipelineFinding(files, dbconns) \o ClientServerFinding(frameworks)

\* -------------------------------------------- top functions / top classes
TopN == 20
\* function_counts: name -> occurrences, in order of first occurrence
NameCounts(items) ==
    FoldLeft(LAMBDA d, it : DictSet(d, it.name, DictGet(d, it.name, 0) + 1), << >>, items)
\* sorted(..., key=count, reverse=True): stable, largest count first
RECURSIVE SortByCountDesc(_)
SortByCountDesc(d) ==
    IF d = << >> THEN << >>
    ELSE LET i == CHOOSE j \in DOMAIN d :
                      /\ \A m \in DOMAIN d : d[m].v <= d[j].v
                      /\ \A m \in 1..(j - 1) : d[m].v < d[j].v
         IN  <<d[i]>> \o SortByCountDesc(SubSeq(d, 1, i - 1) \o SubSeq(d, i + 1, Len(d)))
TopNames(items) ==
    LET sorted == SortByCountDesc(NameCounts(items))
    IN  SubSeq(sorted, 1, IF Len(sorted) < TopN THEN Len(sorted) ELSE TopN)

\* ------------------------------------------------- the language-model call
\* What a chat.completions.create call does: it raises, or it returns a
\* reply whose message content is JSON text, other text, or None.
Responses ==
    { [kind |-> "raise"],
      [kind |-> "reply", content |-> "json"],
      [kind |-> "reply", content |-> "prose"],
      [kind |-> "reply", content |-> "None"] }

\* CodeAnalyzer.analyze_code_with_openai
analyze_code_with_openai(client, response) ==
    IF ~client THEN Ok("OpenAI API key not configured")
    ELSE IF response.kind = "raise" THEN Ok("Error analyzing code with OpenAI")
    ELSE Ok(response.content)

\* ------------------------------------------------------------ the archives
\* An uploaded archive: whether zipfile can read it, and its entries in the
\* order os.walk yields them after extraction.
NoUpload == NoneRec
Archive(corrupt, files) == [corrupt |-> corrupt, files |-> files]
Reverse(s) == [i \in DOMAIN s |-> s[Len(s) + 1 - i]]
\* The entries of pool at the positions in S, in the order of pool
Pick(pool, S) ==
    LET at(i) == CHOOSE k \in S : Cardinality({j \in S : j < k}) = i - 1
    IN  [i \in 1..Cardinality(S) |-> pool[at(i)]]
\* The file lists of at most n entries that a walk in the order of pool, or
\* in the opposite order, yields
EntrySeqs(pool, n) ==
    LET few == {S \in SUBSET DOMAIN pool : Cardinality(S) <= n}
    IN  {Pick(pool, S) : S \in few} \cup {Pick(Reverse(pool), S) : S \in few}
AllArchives ==
    {Archive(FALSE, fs) : fs \in EntrySeqs(FilePool, MaxFiles)} \cup {Archive(TRUE, << >>)}
\* hashlib.md5(file_content).hexdigest(): a digest stands for the bytes it
\* was computed from
Md5(archive) == [digest_of |-> archive]
ApiKeys == {"", "sk-key"}

\* ---------------------------------------------------------------- the page
NoCall == [fn |-> "none"]

\* The page before its first rerun, and the batch before it starts
Idle ==
    /\ pc = "idle"
    /\ uploaded = NoUpload
    /\ api_key = ""
    /\ scan_results = NoneRec
    /\ scan_time = NoneRec
    /\ last_file_hash = NoneRec
    /\ shown_errors = << >>
    /\ runs = 0
    /\ openai_client = FALSE
    /\ disk = {}
    /\ pos = 0
    /\ analyzed = {}
    /\ files_data = << >>
    /\ language_data = << >>
    /\ all_functions = << >>
    /\ all_classes = << >>
    /\ all_variables = << >>
    /\ db_connections = << >>
    /\ api_usage = << >>
    /\ framework_usage = << >>
    /\ total_lines = 0
    /\ detected_databases = {}
    /\ detected_apis = {}
    /\ detected_frameworks = {}
    /\ results = NoneRec
    /\ batch = [pc |-> "off"]

Init == Idle /\ call = NoCall

\* A rerun of the script ends where the script ends or where an exception
\* leaves it; the next interaction starts the next rerun.
ScriptEnded == pc \in {"idle", "crashed"}

\* main(): no file in the uploader
RerunNoUpload(key) ==
    /\ ScriptEnded /\ runs < MaxRuns
    /\ uploaded' = NoUpload /\ api_key' = key
    /\ runs' = runs + 1 /\ shown_errors' = << >> /\ pc' = "idle"
    /\ UNCHANGED <<results, sessionVars, scanVars, pos, batch, call>>

\* main(): the uploaded archive has the hash of the last stored scan
RerunSameFile(archive, key) ==
    /\ ScriptEnded /\ runs < MaxRuns
    /\ ~IsNone(archive)
    /\ last_file_hash = Md5(archive)
    /\ uploaded' = archive /\ api_key' = key
    /\ runs' = runs + 1 /\ shown_errors' = << >> /\ pc' = "idle"
    /\ UNCHANGED <<results, sessionVars, scanVars, pos, batch, call>>

\* A variant that scans whatever the stored hash is
RerunScanAlways(archive, key) ==
    /\ ScriptEnded /\ runs < MaxRuns
    /\ ~IsNone(archive)
    /\ uploaded' = archive /\ api_key' = key
    /\ runs' = runs + 1 /\ shown_errors' = << >>
    /\ openai_client' = (key # "")
    /\ results' = NoneRec
    /\ pc' = "extract"
    /\ disk' = {} /\ pos' = 0 /\ analyzed' = {}
    /\ files_data' = << >> /\ language_data' = << >>
    /\ all_functions' = << >> /\ all_classes' = << >> /\ all_variables' = << >>
    /\ db_connections' = << >> /\ api_usage' = << >> /\ framework_usage' = << >>
    /\ total_lines' = 0
    /\ detected_databases' = {} /\ detected_apis' = {} /\ detected_frameworks' = {}
    /\ UNCHANGED <<sessionVars, batch, call>>

\* main(): another archive; analyze_codebase starts (set_api_key, the copy of
\* the upload into temp_dir) with a new CodeAnalyzer.
RerunScan(archive, key) ==
    /\ ScriptEnded /\ runs < MaxRuns
    /\ ~IsNone(archive)
    /\ last_file_hash # Md5(archive)
    /\ uploaded' = archive /\ api_key' = key
    /\ runs' = runs + 1 /\ shown_errors' = << >>
    /\ openai_client' = (key # "")
    /\ results' = NoneRec
    /\ pc' = "extract"
    /\ disk' = {} /\ pos' = 0 /\ analyzed' = {}
    /\ files_data' = << >> /\ language_data' = << >>
    /\ all_functions' = << >> /\ all_classes' = << >> /\ all_variables' = << >>
    /\ db_connections' = << >> /\ api_usage' = << >> /\ framework_usage' = << >>
    /\ total_lines' = 0
    /\ detected_databases' = {} /\ detected_apis' = {} /\ detected_frameworks' = {}
    /\ UNCHANGED <<sessionVars, batch, call>>

\* A variant in which the failed extraction returns the empty containers too
ExtractBadZipPartial ==
    /\ pc = "extract" /\ uploaded.corrupt
    /\ results' = [error |-> "Invalid or corrupted ZIP file", files |-> << >>]
    /\ pc' = "returned"
    /\ UNCHANGED <<uploaded, api_key, shown_errors, runs, sessionVars, scanVars, pos, batch, call>>

\* analyze_codebase: zipfile.BadZipFile
ExtractBadZip ==
    /\ pc = "extract" /\ uploaded.corrupt
    /\ results' = [error |-> "Invalid or corrupted ZIP file"]
    /\ pc' = "returned"
    /\ UNCHANGED <<uploaded, api_key, shown_errors, runs, sessionVars, scanVars, pos, batch, call>>

\* analyze_codebase: extractall, then "Initialize results containers"
ExtractOk ==
    /\ pc = "extract" /\ ~uploaded.corrupt
    /\ disk' = Range(uploaded.files)
    /\ pos' = 1
    /\ analyzed' = {}
    /\ files_data' = << >> /\ language_data' = << >>
    /\ all_functions' = << >> /\ all_classes' = << >> /\ all_variables' = << >>
    /\ db_connections' = << >> /\ api_usage' = << >> /\ framework_usage' = << >>
    /\ total_lines' = 0
    /\ detected_databases' = {} /\ detected_apis' = {} /\ detected_frameworks' = {}
    /\ pc' = "walk"
    /\ UNCHANGED <<uploaded, api_key, shown_errors, runs, results, sessionVars,
                   openai_client, batch, call>>

\* ------------------------------------------------- the walk over the files
Walking == pc = "walk" /\ pos <= Len(uploaded.files)
Current == uploaded.files[pos]
walkFrame == <<uploaded, api_key, shown_errors, runs, sessionVars, openai_client, disk, batch, call>>
foldFrame == <<analyzed, all_functions, all_classes, all_variables, db_connections,
               api_usage, framework_usage, total_lines, detected_databases,
               detected_apis, detected_frameworks>>

\* "Skip hidden files and directories"
SkipHidden ==
    /\ Walking /\ IsHidden(Current.path)
    /\ pos' = pos + 1
    /\ UNCHANGED <<pc, results, walkFrame, foldFrame, files_data, language_data>>

\* "Skip binary files": the extensions that are never opened
SkipBinaryExtension ==
    /\ Walking /\ ~IsHidden(Current.path)
    /\ Suffix(Current.path) \in BINARY_EXTENSIONS
    /\ pos' = pos + 1
    /\ UNCHANGED <<pc, results, walkFrame, foldFrame, files_data, language_data>>

Opened == Walking /\ ~IsHidden(Current.path) /\ Suffix(Current.path) \notin BINARY_EXTENSIONS
CountLanguage(d, language) == DictSet(d, language, DictGet(d, language, 0) + 1)

\* The record of a file that was read and analyzed
TextRecord(e, analysis) ==
    [name |-> Basename(e.path), path |-> e.path, extension |-> Suffix(e.path),
     language |-> LanguageOf(Suffix(e.path)), size |-> e.size,
     lines |-> analysis.lines,
     functions |-> Len(analysis.functions), classes |-> Len(analysis.classes),
     has_db_connection |-> analysis.db_connections # << >>,
     db_types |-> analysis.db_connections,
     api_patterns |-> analysis.api_patterns,
     frameworks |-> [i \in DOMAIN analysis.frameworks |-> analysis.frameworks[i].name]]
\* The record under `except (UnicodeDecodeError, PermissionError)`
BinaryRecord(e) ==
    [name |-> Basename(e.path), path |-> e.path, extension |-> Suffix(e.path),
     language |-> LanguageOf(Suffix(e.path)), size |-> e.size, is_binary |-> TRUE]

\* func["file"] = rel_path, for each item
Tagged(items, path) == [i \in DOMAIN items |-> items[i] @@ [file |-> path]]
\* A variant that adds a key for an empty list of hits too
TrackAlways(d, path, hits) == DictSet(d, path, hits)

\* "Track database connections" and its two siblings: an empty list of hits
\* adds no key
Track(d, path, hits) == IF hits # << >> THEN DictSet(d, path, hits) ELSE d

\* A variant that counts a line for a file it could not open
FoldUnreadableCounted ==
    /\ Opened /\ ~Current.readable
    /\ language_data' = CountLanguage(language_data, LanguageOf(Suffix(Current.path)))
    /\ files_data' = Append(files_data, BinaryRecord(Current))
    /\ total_lines' = total_lines + 1
    /\ pos' = pos + 1
    /\ UNCHANGED <<pc, results, walkFrame, analyzed, all_functions, all_classes,
                   all_variables, db_connections, api_usage, framework_usage,
                   detected_databases, detected_apis, detected_frameworks>>

\* open() raises PermissionError: the file is recorded as binary
FoldUnreadable ==
    /\ Opened /\ ~Current.readable
    /\ language_data' = CountLanguage(language_data, LanguageOf(Suffix(Current.path)))
    /\ files_data' = Append(files_data, BinaryRecord(Current))
    /\ pos' = pos + 1
    /\ UNCHANGED <<pc, results, walkFrame, foldFrame>>

\* The file is read, analyze_file returns, its result is folded in
FoldText ==
    /\ Opened /\ Current.readable
    /\ LET e == Current
           r == analyze_file(e.content, Suffix(e.path))
           a == r.val
           names == [i \in DOMAIN a.frameworks |-> a.frameworks[i].name]
       IN  /\ ~Raised(r)
           /\ analyzed' = analyzed \cup {e.path}
           /\ language_data' = CountLanguage(language_data, LanguageOf(Suffix(e.path)))
           /\ total_lines' = total_lines + a.lines
           /\ all_functions' = all_functions \o Tagged(a.functions, e.path)
           /\ all_classes' = all_classes \o Tagged(a.classes, e.path)
           /\ all_variables' = all_variables \o Tagged(a.variables, e.path)
           /\ db_connections' = Track(db_connections, e.path, a.db_connections)
           /\ detected_databases' = detected_databases \cup Range(a.db_connections)
           /\ api_usage' = Track(api_usage, e.path, a.api_patterns)
           /\ detected_apis' = detected_apis \cup Range(a.api_patterns)
           /\ framework_usage' = Track(framework_usage, e.path, names)
           /\ detected_frameworks' = detected_frameworks \cup Range(names)
           /\ files_data' = Append(files_data, TextRecord(e, a))
    /\ pos' = pos + 1
    /\ UNCHANGED <<pc, results, walkFrame>>

\* analyze_file raises something other than UnicodeDecodeError and
\* PermissionError: no handler of analyze_codebase or main() takes it, and
\* the rerun ends with the exception.
FoldRaises ==
    /\ Opened /\ Current.readable
    /\ LET r == analyze_file(Current.content, Suffix(Current.path))
       IN  /\ Raised(r)
           /\ results' = [exception |-> r.exc]
    /\ analyzed' = analyzed \cup {Current.path}
    /\ language_data' = CountLanguage(language_data, LanguageOf(Suffix(Current.path)))
    /\ pc' = "crashed"
    /\ UNCHANGED <<walkFrame, pos, files_data, all_functions, all_classes, all_variables,
                   db_connections, api_usage, framework_usage, total_lines,
                   detected_databases, detected_apis, detected_frameworks>>

\* The tail of analyze_codebase, after the walk: the counters, the top
\* names, the data-flow graph, the project summary when a client is set, the
\* architecture findings, and the result dict.
AnalysisResults(dbOrder, response) ==
    LET data_flow == analyze_data_flow(files_data, db_connections, dbOrder, disk)
        project_summary ==
            IF openai_client THEN analyze_code_with_openai(openai_client, response).val
            ELSE ""
    IN  [files |-> files_data,
         language_stats |-> language_data,
         functions |-> all_functions,
         classes |-> all_classes,
         variables |-> all_variables,
         db_connections |-> db_connections,
         api_usage |-> api_usage,
         framework_usage |-> framework_usage,
         code_stats |-> [total_files |-> Len(files_data),
                         total_lines |-> total_lines,
                         total_functions |-> Len(all_functions),
                         total_classes |-> Len(all_classes),
                         total_variables |-> Len(all_variables),
                         detected_databases |-> detected_databases,
                         detected_apis |-> detected_apis,
                         detected_frameworks |-> detected_frameworks],
         top_functions |-> TopNames(all_functions),
         top_classes |-> TopNames(all_classes),
         project_summary |-> project_summary,
         data_flow |-> data_flow,
         architecture_patterns |->
             detect_architecture_patterns(files_data, all_classes, framework_usage,
                                          db_connections, api_usage)]

FinishWalk ==
    /\ pc = "walk" /\ pos > Len(uploaded.files)
    /\ \E dbOrder \in Orderings(DbTypeSet(db_connections)) :
           \E response \in (IF openai_client THEN Responses ELSE {[kind |-> "raise"]}) :
               results' = AnalysisResults(dbOrder, response)
    /\ pc' = "returned"
    /\ UNCHANGED <<uploaded, api_key, shown_errors, runs, sessionVars, scanVars, pos, batch, call>>

\* A variant that records the hash of the archive whose scan failed
ShowErrorRecordsHash ==
    /\ pc = "returned" /\ "error" \in DOMAIN results
    /\ shown_errors' = Append(shown_errors, results.error)
    /\ last_file_hash' = Md5(uploaded)
    /\ pc' = "idle"
    /\ UNCHANGED <<uploaded, api_key, runs, results, scan_results, scan_time, scanVars,
                   pos, batch, call>>

\* main(): `if "error" in results: st.error(results["error"])`
ShowError ==
    /\ pc = "returned" /\ "error" \in DOMAIN results
    /\ shown_errors' = Append(shown_errors, results.error)
    /\ pc' = "idle"
    /\ UNCHANGED <<uploaded, api_key, runs, results, sessionVars, scanVars, pos, batch, call>>

\* A variant that saves the results without the hash
StoreResultsWithoutHash ==
    /\ pc = "returned" /\ "error" \notin DOMAIN results
    /\ scan_results' = results
    /\ scan_time' = [seconds_of_run |-> runs]
    /\ pc' = "idle"
    /\ UNCHANGED <<uploaded, api_key, shown_errors, runs, results, last_file_hash,
                   scanVars, pos, batch, call>>

\* main(): "Save results to session state"
StoreResults ==
    /\ pc = "returned" /\ "error" \notin DOMAIN results
    /\ scan_results' = results
    /\ scan_time' = [seconds_of_run |-> runs]
    /\ last_file_hash' = Md5(uploaded)
    /\ pc' = "idle"
    /\ UNCHANGED <<uploaded, api_key, shown_errors, runs, results, scanVars, pos, batch, call>>

\* What the file uploader can hold at a rerun: in Spec the user works with
\* one archive (it stays in the uploader, or is taken out and put back); in
\* SpecSession the user changes between the archives of a small set.
OneUpload ==
    IF ~IsNone(uploaded) THEN {uploaded}
    ELSE IF ~IsNone(last_file_hash) THEN {last_file_hash.digest_of}
    ELSE AllArchives

Scan ==
    \/ ExtractBadZip \/ ExtractOk
    \/ SkipHidden \/ SkipBinaryExtension \/ FoldUnreadable \/ FoldText \/ FoldRaises
    \/ FinishWalk \/ ShowError \/ StoreResults

Next ==
    \/ \E key \in ApiKeys : RerunNoUpload(key)
    \/ \E archive \in OneUpload, key \in ApiKeys : RerunSameFile(archive, key)
    \/ \E archive \in OneUpload, key \in ApiKeys : RerunScan(archive, key)
    \/ Scan

Spec == Init /\ [][Next]_vars

\* ------------------------------------------------- a session of several uploads
\* Archives the user changes between in SpecSession
SessionArchives ==
    { Archive(FALSE, Pick(FilePool, {1, 5, 8})),
      Archive(FALSE, Pick(FilePool, {6, 9})),
      Archive(FALSE, Pick(FilePool, {7})),
      Archive(TRUE, << >>) }

NextSession ==
    \/ \E key \in ApiKeys : RerunNoUpload(key)
    \/ \E archive \in SessionArchives, key \in ApiKeys : RerunSameFile(archive, key)
    \/ \E archive \in SessionArchives, key \in ApiKeys : RerunScan(archive, key)
    \/ Scan

SpecSession == Init /\ [][NextSession]_vars

\* ------------------------------------------------------------- LLMAnalyzer
\* LLMAnalyzer.SUPPORTED_LANGUAGES (the extensions the batches use)
SUPPORTED_LANGUAGES ==
    << [k |-> ".py", v |-> "python"], [k |-> ".js", v |-> "javascript"],
       [k |-> ".java", v |-> "java"], [k |-> ".jsx", v |-> "jsx"] >>

\* What the completion call of detect_language does
DetectResponses ==
    { [kind |-> "raise"],
      [kind |-> "reply", content |-> " Ruby "],
      [kind |-> "reply", content |-> "None"] }
\* str.strip().lower()
StripLower(t) == CASE t = " Ruby " -> "ruby" [] OTHER -> t

\* A file of a src/main.py batch: its name in the archive, whether
\* zip_file.read gave its text, what ast.parse does with the text, its line
\* count, and what the content heuristics of detect_language make of it
\* ("none": nothing).
BatchFile(filename, loaded, parse, lines, hint) ==
    [filename |-> filename, loaded |-> loaded, parse |-> parse, lines |-> lines,
     hint |-> hint]

\* "Check for special filenames": os.path.basename(file_path).lower()
SpecialName(path) ==
    LET filename == Lower(Basename(path))
    IN  IF filename = <<"dockerfile">> THEN "dockerfile"
        ELSE IF filename \in {<<"makefile">>, <<"gnumakefile">>,
                              <<"makefile", ".am">>, <<"makefile", ".in">>}
        THEN "makefile"
        ELSE IF filename # << >> /\ Head(filename) = "requirements"
                /\ Last(filename) = ".txt"
        THEN "requirements"
        ELSE IF filename \in {<<".gitignore">>, <<".dockerignore">>} THEN "ignore"
        ELSE "none"

\* A text as the content heuristics read it: whether its first line starts
\* with '#!', which of the interpreter names occur in that line, and which
\* of the markers occur in its first 1000 characters.
Text(shebang, first_line, markers) ==
    [shebang |-> shebang, first_line |-> first_line, markers |-> markers]
\* "Check for shebang"
ShebangHint(content) ==
    LET line == content.first_line
    IN  IF ~content.shebang THEN "none"
        ELSE IF "python" \in line THEN "python"
        ELSE IF "node" \in line THEN "javascript"
        ELSE IF "bash" \in line \/ "sh" \in line THEN "bash"
        ELSE IF "perl" \in line THEN "perl"
        ELSE IF "ruby" \in line THEN "ruby"
        ELSE "none"
\* "Check for common language patterns"
MarkerHint(content) ==
    LET in1000 == content.markers
    IN  IF "<?php" \in in1000 THEN "php"
        ELSE IF "<html" \in in1000 \/ "<!doctype html" \in in1000 THEN "html"
        ELSE IF "import React" \in in1000 \/ "from 'react'" \in in1000 THEN "jsx"
        ELSE IF {"package ", "import ", "{"} \subseteq in1000 THEN "java"
        ELSE IF "#include" \in in1000 /\ (".h" \in in1000 \/ ".hpp" \in in1000)
        THEN "cpp"
        ELSE "none"
\* "use content-based heuristics": the shebang, then the markers ("none":
\* nothing found, as for an empty text)
ContentHint(content) ==
    IF ShebangHint(content) # "none" THEN ShebangHint(content) ELSE MarkerHint(content)

\* The files for which detect_language gets as far as the model
AsksModel(file) ==
    /\ ~DictHas(SUPPORTED_LANGUAGES, Suffix(file.filename))
    /\ SpecialName(file.filename) = "none"
    /\ file.hint = "none"

\* The completion call was made: its outcome is the result
Asked(r) == r @@ [asked |-> TRUE]

\* A variant that asks the model before it looks at the content
detect_language_model_first(client, file, response) ==
    IF DictHas(SUPPORTED_LANGUAGES, Suffix(file.filename))
    THEN Ok(DictGet(SUPPORTED_LANGUAGES, Suffix(file.filename), "unknown"))
    ELSE IF SpecialName(file.filename) # "none" THEN Ok(SpecialName(file.filename))
    ELSE IF client /\ response.kind = "reply" /\ response.content # "None"
    THEN Asked(Ok(StripLower(response.content)))
    ELSE IF file.hint # "none" THEN Ok(file.hint)
    ELSE IF client THEN Asked(Ok("unknown"))
    ELSE Ok("unknown")

\* LLMAnalyzer.detect_language: the extension table, the special file
\* names, the content heuristics, then the model; a failure of that call is
\* logged and 'unknown' returned.
detect_language(client, file, response) ==
    IF DictHas(SUPPORTED_LANGUAGES, Suffix(file.filename))
    THEN Ok(DictGet(SUPPORTED_LANGUAGES, Suffix(file.filename), "unknown"))
    ELSE IF SpecialName(file.filename) # "none" THEN Ok(SpecialName(file.filename))
    ELSE IF file.hint # "none" THEN Ok(file.hint)
    ELSE IF client /\ response.kind = "reply" /\ response.content # "None"
    THEN Asked(Ok(StripLower(response.content)))
    ELSE IF client THEN Asked(Ok("unknown"))
    ELSE Ok("unknown")

NoKeyError == [error |-> "No API key provided"]

\* A variant whose completion call is outside the try
analyze_code_unguarded(client, file, language, detectResponse, response) ==
    IF ~client THEN Ok(NoKeyError)
    ELSE IF response.kind = "raise" THEN Raise("APIError")
    ELSE Ok([file |-> file.filename, language |-> language,
             llm_analysis |-> [parsed_as |-> "json"],
             raw_response |-> response.content])

\* LLMAnalyzer.analyze_code: json.loads(None) raises TypeError, which the
\* `except Exception` of the method takes like a failure of the call.
analyze_code(client, file, language, detectResponse, response) ==
    IF ~client THEN Ok(NoKeyError)
    ELSE LET detected == IF language \in {"", "unknown"}
                         THEN detect_language(client, file, detectResponse)
                         ELSE Ok(language)
         IN  IF Raised(detected) THEN detected
             ELSE IF response.kind = "raise" \/ response.content = "None"
             THEN Ok([error |-> "Error during LLM analysis", file |-> file.filename])
             ELSE Ok([file |-> file.filename, language |-> detected.val,
                      llm_analysis |-> [parsed_as |-> IF response.content = "json"
                                                      THEN "json" ELSE "text"],
                      raw_response |-> response.content])

\* LLMAnalyzer.analyze_project_structure: the whole body is under one
\* `except Exception`; detectResponses[i] answers the completion call that
\* detect_language makes for files[i], if it makes one.
analyze_project_structure(client, files, detectResponses, response) ==
    IF ~client THEN Ok(NoKeyError)
    ELSE LET languages == [i \in DOMAIN files |->
                              detect_language(client, files[i],
                                              Get(detectResponses, i, [kind |-> "raise"]))]
             language_stats ==
                 FoldLeft(LAMBDA d, l : DictSet(d, l.val, DictGet(d, l.val, 0) + 1),
                          << >>, languages)
         IN  IF \E i \in DOMAIN languages : Raised(languages[i])
             THEN Ok([error |-> "Error during project structure analysis"])
             ELSE IF response.kind = "raise" \/ response.content = "None"
             THEN Ok([error |-> "Error during project structure analysis"])
             ELSE Ok([project_structure |->
                          [parsed_as |-> IF response.content = "json"
                                         THEN "json" ELSE "fallback"],
                      language_stats |-> language_stats,
                      raw_response |-> response.content])

\* ----------------------------------------------------------- PythonAnalyzer
\* A float that a division produced is kept as the fraction n/d (d > 0).
Ratio(n, d) == [n |-> n, d |-> d]
Whole(k) == Ratio(k, 1)
Less(a, b) == a.n * b.d < b.n * a.d
Same(a, b) == a.n * b.d = b.n * a.d
Plus(a, b) == Ratio(a.n * b.d + b.n * a.d, a.d * b.d)
Smaller(a, b) == IF Less(b, a) THEN b ELSE a
Larger(a, b) == IF Less(a, b) THEN b ELSE a
AtLeastOne(k) == IF k < 1 THEN 1 ELSE k
RECURSIVE Sum(_)
Sum(s) == IF s = << >> THEN 0 ELSE Head(s) + Sum(Tail(s))

\* A function definition as the analyzer reads it: its name, whether it has
\* a docstring, end_lineno - lineno, the number of positional parameters,
\* the node kinds of args.defaults and of args.kw_defaults, the number of
\* `if` statements in it (it has no loop, no boolean operator, and a `try`
\* only when it has an except block whose body is `pass`). Its `if` and
\* `try` statements follow each other in its body, none inside another.
PyFunc(name, doc, span, nargs, defaults, kw_defaults, branches, empty_except) ==
    [name |-> name, doc |-> doc, span |-> span, nargs |-> nargs,
     defaults |-> defaults, kw_defaults |-> kw_defaults, branches |-> branches,
     empty_except |-> empty_except]
PyClass(name, doc) == [name |-> name, doc |-> doc]
\* A Python text: what ast.parse does with it, its '#' lines, blank lines
\* and top-level statement lines, and its definitions in source order (the
\* functions first).
PySource(parse, comments, blank, statements, funcs, classes) ==
    [parse |-> parse, comments |-> comments, blank |-> blank,
     statements |-> statements, funcs |-> funcs, classes |-> classes]

\* def f(items=[]), def g(items=None), a long def h with six parameters, a
\* longer def k(a={}, b={1}), def m(*, opts={}), a def p of 51 lines with
\* five parameters and a keyword-only one, a def q of 50 lines with five
FuncPool ==
    << PyFunc("f", TRUE, 2, 1, <<"List">>, << >>, 0, FALSE),
       PyFunc("g", FALSE, 3, 1, <<"Constant">>, << >>, 1, FALSE),
       PyFunc("h", FALSE, 31, 6, << >>, << >>, 4, TRUE),
       PyFunc("k", FALSE, 51, 2, <<"Dict", "Set">>, << >>, 11, FALSE),
       PyFunc("m", TRUE, 1, 0, << >>, <<"Dict">>, 0, FALSE),
       PyFunc("p", TRUE, 50, 5, << >>, <<"Constant">>, 0, FALSE),
       PyFunc("q", TRUE, 49, 5, << >>, << >>, 0, FALSE) >>
ClassPool == { << >>, <<PyClass("Repo", TRUE)>>, <<PyClass("Repo", FALSE)>> }

CodeLines(src) ==
    src.statements + Sum([i \in DOMAIN src.funcs |-> src.funcs[i].span + 1])
    + 2 * Len(src.classes)
\* lineno of the i-th function
LineOf(src, i) ==
    src.comments + src.blank + src.statements
    + Sum([j \in 1..(i - 1) |-> src.funcs[j].span + 1]) + 1
ClassLineOf(src, i) == LineOf(src, Len(src.funcs) + 1) + 2 * (i - 1)

\* PythonAnalyzer.__init__: only SyntaxError is handled; self.tree stays None
PythonAnalyzer(src) ==
    IF src.parse = "ok" THEN Ok([src |-> src, tree |-> TRUE])
    ELSE IF src.parse = "SyntaxError" THEN Ok([src |-> src, tree |-> FALSE])
    ELSE Raise(src.parse)

count_lines(src) ==
    [total |-> CodeLines(src) + src.comments + src.blank, code |-> CodeLines(src),
     comments |-> src.comments, blank |-> src.blank]
TryCount(f) == IF f.empty_except THEN 1 ELSE 0
calculate_complexity(src) ==
    LET if_statements == Sum([i \in DOMAIN src.funcs |-> src.funcs[i].branches])
        try_except == Sum([i \in DOMAIN src.funcs |-> TryCount(src.funcs[i])])
    IN  [if_statements |-> if_statements, for_loops |-> 0, while_loops |-> 0,
         total_complexity |-> if_statements + try_except]
\* ast.walk goes breadth first: the definitions, which reset nesting_level,
\* all come before the statements inside them, so the k-th of the if and
\* try statements adds 1 + (k - 1).
calculate_cognitive_complexity(src) ==
    LET k == calculate_complexity(src).total_complexity
    IN  Len(src.funcs) + Len(src.classes) + k + (k * (k - 1)) \div 2

\* The functions whose end_lineno - lineno exceeds a limit
LongerThan(src, limit) == SelectSeq(src.funcs, LAMBDA f : f.span > limit)

calculate_docstring_coverage(self) ==
    LET src == self.src
        total_items == Len(src.funcs) + Len(src.classes)
        items_with_docstring ==
            Len(SelectSeq(src.funcs, LAMBDA f : f.doc))
            + Len(SelectSeq(src.classes, LAMBDA c : c.doc))
    IN  IF ~self.tree THEN Whole(0)
        ELSE IF total_items = 0 THEN Whole(100)
        ELSE Ratio(items_with_docstring * 100, total_items)

\* A variant with penalties of 30 and no cap
calculate_maintainability_uncapped(self) ==
    LET src == self.src
        code == count_lines(src).code
        tc == calculate_complexity(src).total_complexity
        long_functions == Len(LongerThan(src, 30))
        debt == Plus(Whole((IF src.comments * 10 < code THEN 30 ELSE 0)
                           + (IF tc * 10 > AtLeastOne(code) THEN 30 ELSE 0)
                           + (IF Less(calculate_docstring_coverage(self), Whole(50))
                              THEN 30 ELSE 0)),
                     Ratio(30 * long_functions, AtLeastOne(Len(src.funcs))))
    IN  IF ~self.tree THEN [score |-> Whole(0), debt_ratio |-> Whole(100)]
        ELSE [score |-> Whole(0), debt_ratio |-> IF code > 0 THEN debt ELSE Whole(0)]

\* PythonAnalyzer._calculate_maintainability
calculate_maintainability(self) ==
    LET src == self.src
        code == count_lines(src).code
        tc == calculate_complexity(src).total_complexity
        \* 100 - volume / 10, volume = code * (tc / max(1, functions + classes))
        items == AtLeastOne(Len(src.funcs) + Len(src.classes))
        index == Ratio(1000 * items - code * tc, 10 * items)
        maintainability_index == Larger(Whole(0), Smaller(Whole(100), index))
        long_functions == Len(LongerThan(src, 30))
        debt == Plus(Whole((IF src.comments * 10 < code THEN 20 ELSE 0)
                           + (IF tc * 10 > AtLeastOne(code) THEN 20 ELSE 0)
                           + (IF Less(calculate_docstring_coverage(self), Whole(50))
                              THEN 20 ELSE 0)),
                     Ratio(20 * long_functions, AtLeastOne(Len(src.funcs))))
        debt_ratio == Smaller(Whole(100), IF code > 0 THEN debt ELSE Whole(0))
    IN  IF ~self.tree THEN [score |-> Whole(0), debt_ratio |-> Whole(100)]
        ELSE [score |-> maintainability_index, debt_ratio |-> debt_ratio]

\* PythonAnalyzer._create_error_metrics
create_error_metrics(self) ==
    [size |-> [lines_total |-> 0, lines_code |-> 0, lines_comment |-> 0,
               lines_blank |-> 0],
     structure |-> [functions |-> 0, classes |-> 0, imports |-> 0],
     complexity |-> [cyclomatic |-> 0, cognitive |-> 0, if_statements |-> 0,
                     loops |-> 0],
     documentation |-> [docstring_coverage |-> Whole(0), comment_ratio |-> Whole(0)],
     maintainability |-> [score |-> Whole(0), debt_ratio |-> Whole(100)],
     issues |-> << [type |-> "error", message |-> "Failed to parse Python code",
                    line |-> 1, severity |-> "error"] >>]

\* PythonAnalyzer.analyze (the sources of the model have no import)
analyze(self) ==
    LET src == self.src
        lines == count_lines(src)
        complexity == calculate_complexity(src)
        maintainability == calculate_maintainability(self)
    IN  IF ~self.tree THEN create_error_metrics(self)
        ELSE [size |-> [lines_total |-> lines.total, lines_code |-> lines.code,
                        lines_comment |-> lines.comments, lines_blank |-> lines.blank],
              structure |-> [functions |-> Len(src.funcs), classes |-> Len(src.classes),
                             imports |-> 0],
              complexity |-> [cyclomatic |-> complexity.total_complexity,
                              cognitive |-> calculate_cognitive_complexity(src),
                              if_statements |-> complexity.if_statements,
                              loops |-> complexity.for_loops + complexity.while_loops],
              documentation |->
                  [docstring_coverage |-> calculate_docstring_coverage(self),
                   comment_ratio |-> Ratio(lines.comments * 100, AtLeastOne(lines.code))],
              maintainability |-> maintainability]

\* Issue(file, line, message, severity, category, recommendation), without
\* the file, the recommendation and the numbers a message quotes
Issue(line, message, severity, category) ==
    [line |-> line, message |-> message, severity |-> severity, category |-> category]
MutableLiterals == {"List", "Dict", "Set"}

\* "Check for mutable default arguments": one issue for each node of
\* args.defaults that is a list, dict or set literal
MutableDefaultIssues(src) ==
    LET of(i) ==
            LET mutable == SelectSeq(src.funcs[i].defaults, LAMBDA d : d \in MutableLiterals)
            IN  [j \in DOMAIN mutable |->
                    Issue(LineOf(src, i),
                          <<"Mutable default argument in function '",
                            src.funcs[i].name, "'">>, "MEDIUM", "Bug Risk")]
    IN  Flatten([i \in DOMAIN src.funcs |-> of(i)])

\* PythonAnalyzer.detect_issues: the checks in the order of the source, each
\* over the definitions in the order ast.walk yields them
detect_issues(self) ==
    LET src == self.src
        each(check(_)) == Flatten([i \in DOMAIN src.funcs |-> check(i)])
        long(i) ==
            IF src.funcs[i].span > 50
            THEN << Issue(LineOf(src, i),
                          <<"Function '", src.funcs[i].name, "' is too long">>,
                          "MEDIUM", "Maintainability") >>
            ELSE << >>
        args(i) ==
            IF src.funcs[i].nargs > 5
            THEN << Issue(LineOf(src, i),
                          <<"Function '", src.funcs[i].name, "' has too many arguments">>,
                          "MEDIUM", "Design") >>
            ELSE << >>
        undocumented(i) ==
            IF ~src.funcs[i].doc
            THEN << Issue(LineOf(src, i),
                          <<"Missing docstring in function '", src.funcs[i].name, "'">>,
                          "LOW", "Documentation") >>
            ELSE << >>
        undocumentedClass(i) ==
            IF ~src.classes[i].doc
            THEN << Issue(ClassLineOf(src, i),
                          <<"Missing docstring in class '", src.classes[i].name, "'">>,
                          "LOW", "Documentation") >>
            ELSE << >>
        complex(i) ==
            IF src.funcs[i].branches + TryCount(src.funcs[i]) > 10
            THEN << Issue(LineOf(src, i),
                          <<"Function '", src.funcs[i].name, "' is too complex">>,
                          "HIGH", "Complexity") >>
            ELSE << >>
        handler(i) ==
            IF src.funcs[i].empty_except
            THEN << Issue(LineOf(src, i) + src.funcs[i].span - 1,
                          <<"Empty except block">>, "HIGH", "Error Handling") >>
            ELSE << >>
    IN  IF ~self.tree
        THEN << Issue(1, <<"Failed to parse Python code">>, "HIGH", "Syntax") >>
        ELSE each(long) \o each(args) \o each(undocumented)
             \o Flatten([i \in DOMAIN src.classes |-> undocumentedClass(i)])
             \o each(complex) \o MutableDefaultIssues(src) \o each(handler)

\* ------------------------------------------------ the batch of src/main.py
BatchPool ==
    << BatchFile(<<"app", ".py">>, TRUE, "ok", 3, "none"),
       BatchFile(<<"notes", ".txt">>, TRUE, "SyntaxError", 2, "none"),
       BatchFile(<<"enc", ".js">>, FALSE, "SyntaxError", 1, "none"),
       BatchFile(<<"nul", ".py">>, TRUE, "ValueError", 1, "none"),
       BatchFile(<<"run">>, TRUE, "SyntaxError", 2, "python"),
       BatchFile(<<"bad", ".py">>, TRUE, "SyntaxError", 4, "none"),
       BatchFile(<<"web", ".js">>, TRUE, "SyntaxError", 5, "none") >>
\* files_to_analyze: zip_file.filelist in the order of the archive
Batches == EntrySeqs(BatchPool, MaxBatch)

\* "Set language based on file extension for basic detection"
BasicLanguage(file_ext) ==
    CASE file_ext = ".py" -> "python"
      [] file_ext = ".js" -> "javascript"
      [] file_ext = ".html" -> "html"
      [] file_ext = ".css" -> "css"
      [] file_ext = ".java" -> "java"
      [] file_ext \in {".c", ".cpp", ".h"} -> "c/c++"
      [] OTHER -> "unknown"

\* The text of a batch file as PythonAnalyzer reads it: its lines are
\* top-level statements (the text does not end with a newline)
SourceOf(file) == PySource(file.parse, 0, 0, file.lines, << >>, << >>)

\* round(x, 1), half to even
RoundTenth(x) ==
    LET q == (10 * x.n) \div x.d
        r == (10 * x.n) % x.d
    IN  Ratio(IF 2 * r > x.d \/ (2 * r = x.d /\ q % 2 = 1) THEN q + 1 ELSE q, 10)
\* calculate_health_score: documentation * 0.3 + maintainability * 0.7
calculate_health_score(metrics) ==
    LET documentation_score == metrics.documentation.docstring_coverage
        maintainability_score == metrics.maintainability.score
    IN  RoundTenth(Ratio(3 * documentation_score.n * maintainability_score.d
                         + 7 * maintainability_score.n * documentation_score.d,
                         10 * documentation_score.d * maintainability_score.d))

\* PythonAnalyzer(content, path).analyze() and the health score: ast.parse
\* raises ValueError for a text with a null byte (SyntaxError in later
\* versions of the interpreter), which __init__ does not take; a SyntaxError
\* gives the error metrics.
PythonMetrics(file) ==
    LET analyzer == PythonAnalyzer(SourceOf(file))
        metrics == analyze(analyzer.val)
    IN  IF Raised(analyzer) THEN analyzer
        ELSE Ok(metrics @@ [health |-> calculate_health_score(metrics)])
\* "For non-Python files, create basic metrics"
BasicMetrics(file) ==
    Ok([size |-> [lines_total |-> file.lines, lines_code |-> file.lines,
                  lines_comment |-> 0, lines_blank |-> 0],
        structure |-> [functions |-> 0, classes |-> 0, imports |-> 0],
        maintainability |-> [score |-> Whole(50), debt_ratio |-> Whole(50)],
        health |-> Whole(50)])
\* "Collect issues": analyzer.detect_issues() of a Python file
FileIssues(file) ==
    IF BasicLanguage(Suffix(file.filename)) = "python"
    THEN Tagged(detect_issues(PythonAnalyzer(SourceOf(file)).val), file.filename)
    ELSE << >>
FileMetrics(file) ==
    IF BasicLanguage(Suffix(file.filename)) = "python"
    THEN PythonMetrics(file) ELSE BasicMetrics(file)

\* A variant that takes every file
SampledEveryFile(idx, n) == idx >= 1 /\ n >= 1

\* `idx % 5 == 0 or idx == len(files_to_analyze)`
Sampled(idx, n) == idx % 5 = 0 \/ idx = n

\* main(): the ZIP is read and the containers are initialized
BatchStart(files, use_llm, key, generate_lineage) ==
    /\ batch.pc = "off"
    /\ batch' = [pc |-> "loop", files |-> files, idx |-> 1,
                 llm_analyzer |-> (use_llm /\ key # ""),
                 generate_lineage |-> generate_lineage,
                 all_metrics |-> << >>, all_llm_analyses |-> << >>,
                 warnings |-> << >>, file_count |-> 0, total_lines |-> 0,
                 all_issues |-> << >>,
                 requests |-> << >>,
                 project_lineage |-> NoneRec]
    /\ UNCHANGED <<pageVars, sessionVars, scanVars, pos, call>>

InLoop == batch.pc = "loop" /\ batch.idx <= Len(batch.files)
BatchCurrent == batch.files[batch.idx]
WithMetrics(b, file, m) ==
    [b EXCEPT !.all_metrics = Append(@, [file |-> file.filename,
                                         language |-> BasicLanguage(Suffix(file.filename)),
                                         metrics |-> m]),
              !.file_count = @ + 1,
              !.total_lines = @ + m.size.lines_total,
              !.all_issues = @ \o FileIssues(file)]

\* "Skip if content wasn't loaded"
BatchSkip ==
    /\ InLoop /\ ~BatchCurrent.loaded
    /\ batch' = [batch EXCEPT !.idx = @ + 1]
    /\ UNCHANGED <<pageVars, sessionVars, scanVars, pos, call>>

\* The metrics raise: `except Exception as e: st.warning(...)`
BatchWarn ==
    /\ InLoop /\ BatchCurrent.loaded
    /\ Raised(FileMetrics(BatchCurrent))
    /\ batch' = [batch EXCEPT !.idx = @ + 1,
                              !.warnings = Append(@, BatchCurrent.filename)]
    /\ UNCHANGED <<pageVars, sessionVars, scanVars, pos, call>>

\* The metrics are stored and the file is not one for the language model
BatchMeasure ==
    /\ InLoop /\ BatchCurrent.loaded
    /\ ~Raised(FileMetrics(BatchCurrent))
    /\ ~(batch.llm_analyzer /\ Sampled(batch.idx, Len(batch.files)))
    /\ batch' = [WithMetrics(batch, BatchCurrent, FileMetrics(BatchCurrent).val)
                    EXCEPT !.idx = @ + 1]
    /\ UNCHANGED <<pageVars, sessionVars, scanVars, pos, call>>

\* The metrics are stored and llm_analyzer.analyze_code is called; an
\* exception of the call goes to the handler of the loop. batch.requests
\* lists the positions idx at which the call was made.
BatchAsk(detectResponse, response) ==
    /\ InLoop /\ BatchCurrent.loaded
    /\ ~Raised(FileMetrics(BatchCurrent))
    /\ batch.llm_analyzer /\ Sampled(batch.idx, Len(batch.files))
    /\ LET file == BatchCurrent
           b == [WithMetrics(batch, file, FileMetrics(file).val)
                    EXCEPT !.requests = Append(@, batch.idx)]
           llm_analysis == analyze_code(batch.llm_analyzer, file,
                                        BasicLanguage(Suffix(file.filename)),
                                        detectResponse, response)
       IN  batch' =
               IF Raised(llm_analysis)
               THEN [b EXCEPT !.idx = @ + 1, !.warnings = Append(@, file.filename)]
               ELSE [b EXCEPT !.idx = @ + 1,
                              !.all_llm_analyses =
                                  Append(@, [file |-> file.filename,
                                             analysis |-> llm_analysis.val])]
    /\ UNCHANGED <<pageVars, sessionVars, scanVars, pos, call>>

AfterLoop == batch.pc = "loop" /\ batch.idx > Len(batch.files)
WantsLineage == batch.generate_lineage /\ batch.llm_analyzer /\ batch.file_count > 0
\* list(file_contents.keys())
LoadedFiles(files) == SelectSeq(files, LAMBDA f : f.loaded)
\* The files whose language analyze_project_structure asks for
LineageFiles == IF AfterLoop THEN LoadedFiles(batch.files) ELSE << >>
LineageCalls == {i \in DOMAIN LineageFiles : AsksModel(LineageFiles[i])}

\* "Generate project lineage if enabled"; an exception of the call goes to
\* the handler around the whole analysis.
BatchLineage(detectResponses, response) ==
    /\ AfterLoop /\ WantsLineage
    /\ LET r == analyze_project_structure(batch.llm_analyzer, LineageFiles,
                                          detectResponses, response)
       IN  batch' = IF Raised(r)
                    THEN [batch EXCEPT !.pc = "failed"]
                    ELSE [batch EXCEPT !.pc = "done", !.project_lineage = r.val]
    /\ UNCHANGED <<pageVars, sessionVars, scanVars, pos, call>>

BatchNoLineage ==
    /\ AfterLoop /\ ~WantsLineage
    /\ batch' = [batch EXCEPT !.pc = "done"]
    /\ UNCHANGED <<pageVars, sessionVars, scanVars, pos, call>>

NextBatch ==
    \/ \E files \in Batches, use_llm \in BOOLEAN, key \in ApiKeys,
          generate_lineage \in BOOLEAN :
           BatchStart(files, use_llm, key, generate_lineage)
    \/ BatchSkip
    \/ BatchWarn
    \/ BatchMeasure
    \/ \E detectResponse \in DetectResponses, response \in Responses :
           BatchAsk(detectResponse, response)
    \/ \E response \in Responses :
           \E detectResponses \in [LineageCalls -> DetectResponses] :
               BatchLineage(detectResponses, response)
    \/ BatchNoLineage

SpecBatch == Init /\ [][NextBatch]_vars

\* ======================================================== single operations
\* A specification of one operation draws the arguments of a call from a
\* bounded set in its initial state and has one action, the call itself,
\* which stores what the operation returns.
Args(fn, args) == [fn |-> fn, stage |-> "args", args |-> args]
Returned(fn) == call.fn = fn /\ call.stage = "returned"
Apply(fn, ret) ==
    /\ call.fn = fn /\ call.stage = "args"
    /\ call' = [call EXCEPT !.stage = "returned"] @@ [ret |-> ret]
    /\ UNCHANGED <<pageVars, sessionVars, scanVars, pos, batch>>

\* ------------------------------- a call of detect_architecture_patterns
\* What the walk of analyze_codebase has kept of a file when the findings
\* are computed: its path, the names of its classes, and its catalog hits.
Scanned(path, classes, dbs, apis, frameworks) ==
    [path |-> path, classes |-> classes, dbs |-> dbs, apis |-> apis,
     frameworks |-> frameworks]

ScannedPool ==
    << Scanned(<<"services", "/", "api", "/", "users", "/", "Dockerfile">>,
               << >>, << >>, << >>, << >>),
       Scanned(<<"services", "/", "api", "/", "orders", "/", "Dockerfile">>,
               << >>, << >>, << >>, << >>),
       Scanned(<<"services", "/", "API", "/", "billing", "/", "Dockerfile">>,
               << >>, << >>, << >>, << >>),
       Scanned(<<"services", "/", "endpoints", "/", "handlers", "/", "health", ".py">>,
               << >>, << >>, <<"REST API">>, << >>),
       Scanned(<<"app", "/", "Models", "/", "user", ".py">>,
               << >>, <<"MySQL", "PostgreSQL">>, <<"REST API">>, << >>),
       Scanned(<<"app", "/", "views", "/", "user_view", ".py">>,
               <<"UserView">>, << >>, <<"REST API">>, <<"Django">>),
       Scanned(<<"app", "/", "controllers", "/", "user_controller", ".py">>,
               << >>, << >>, <<"REST API", "Message Queue">>, << >>),
       Scanned(<<"etl", "/", "listener", ".py">>,
               << >>, <<"MySQL", "SQLite">>, <<"Message Queue">>, << >>),
       Scanned(<<"jobs", "/", "pipeline", "/", "publisher", ".py">>,
               << >>, <<"SQLite">>, << >>, << >>),
       Scanned(<<"web", "/", "events", "/", "client", ".js">>,
               << >>, << >>, <<"REST API">>, <<"React">>),
       Scanned(<<"app", "/", "models", "/", "views", "/", "report", ".py">>,
               << >>, << >>, << >>, << >>),
       Scanned(<<"lib", "/", "util", ".py">>,
               <<"UserModel", "UserView", "UserController">>, << >>, << >>, << >>) >>

\* The arguments analyze_codebase passes for a list of scanned files
ArchArgs(scanned) ==
    LET classesOf(f) == Tagged([i \in DOMAIN f.classes |->
                                   [name |-> f.classes[i], language |-> "Python"]],
                               f.path)
    IN  [files |-> [i \in DOMAIN scanned |->
                       [name |-> Basename(scanned[i].path), path |-> scanned[i].path]],
         classes |-> Flatten([i \in DOMAIN scanned |-> classesOf(scanned[i])]),
         frameworks |-> FoldLeft(LAMBDA d, f : Track(d, f.path, f.frameworks),
                                 << >>, scanned),
         dbconns |-> FoldLeft(LAMBDA d, f : Track(d, f.path, f.dbs), << >>, scanned),
         apis |-> FoldLeft(LAMBDA d, f : Track(d, f.path, f.apis), << >>, scanned),
         scanned |-> scanned]

ArchCalls ==
    {Args("detect_architecture_patterns", ArchArgs(Pick(ScannedPool, S))) :
        S \in {T \in SUBSET (DOMAIN ScannedPool) : Cardinality(T) <= MaxArchFiles}}

ArchCall ==
    Apply("detect_architecture_patterns",
          detect_architecture_patterns(call.args.files, call.args.classes,
                                       call.args.frameworks, call.args.dbconns,
                                       call.args.apis))

InitArch == Idle /\ call \in ArchCalls
SpecArch == InitArch /\ [][ArchCall]_vars

\* ------------------------------------------------ a call of the three scans
\* The patterns of the three catalogs, and the texts in which at most
\* MaxHits of them occur
PatternsOf(catalog) == UNION {catalog[i].v : i \in DOMAIN catalog}
AllPatterns ==
    PatternsOf(DB_PATTERNS) \cup PatternsOf(API_PATTERNS)
    \cup UNION {PatternsOf(FRAMEWORK_PATTERNS[c].v) : c \in DOMAIN FRAMEWORK_PATTERNS}
ScanTexts == {t \in SUBSET AllPatterns : Cardinality(t) <= MaxHits}
ScanResult(text) ==
    [dbs |-> scan_for_database_connections([text |-> text]),
     apis |-> scan_for_api_patterns([text |-> text]),
     frameworks |-> identify_frameworks([text |-> text])]

ScanCall == Apply("scan", ScanResult(call.args))
\* The same text is scanned once more
ScanAgain ==
    /\ Returned("scan")
    /\ call' = [call EXCEPT !.stage = "repeated"] @@ [again |-> ScanResult(call.args)]
    /\ UNCHANGED <<pageVars, sessionVars, scanVars, pos, batch>>

InitScan == Idle /\ call \in {Args("scan", t) : t \in ScanTexts}
NextScan == ScanCall \/ ScanAgain
SpecScan == InitScan /\ [][NextScan]_vars

\* --------------------------------------------------- a use of PythonAnalyzer
\* The Python texts: at most MaxDefs functions of FuncPool in its order, no
\* class or one, with and without comment lines and top-level statements.
\* ast.parse accepts the empty text; it rejects a text with a SyntaxError, or
\* gives up on a deeply nested expression with a RecursionError.
PySources ==
    LET shapes == {PySource("ok", c, 0, st, Pick(FuncPool, S), cl) :
                       c \in {0, 4}, st \in {0, 5}, cl \in ClassPool,
                       S \in {T \in SUBSET (DOMAIN FuncPool) : Cardinality(T) <= MaxDefs}}
        failing == {src \in shapes : src.statements > 0}
    IN  shapes \cup {[src EXCEPT !.parse = "SyntaxError"] : src \in failing}
               \cup {[src EXCEPT !.parse = "RecursionError"] : src \in failing}

\* analyzer = PythonAnalyzer(content, path)
PyConstruct ==
    /\ call.fn = "PythonAnalyzer" /\ call.stage = "args"
    /\ LET self == PythonAnalyzer(call.args)
       IN  call' = IF Raised(self)
                   THEN [call EXCEPT !.stage = "raised"] @@ [exc |-> self.exc]
                   ELSE [call EXCEPT !.stage = "constructed"] @@ [self |-> self.val]
    /\ UNCHANGED <<pageVars, sessionVars, scanVars, pos, batch>>
\* metrics = analyzer.analyze()
PyAnalyze ==
    /\ call.fn = "PythonAnalyzer" /\ call.stage = "constructed"
    /\ call' = [call EXCEPT !.stage = "analyzed"] @@ [metrics |-> analyze(call.self)]
    /\ UNCHANGED <<pageVars, sessionVars, scanVars, pos, batch>>
\* file_issues = analyzer.detect_issues()
PyDetectIssues ==
    /\ call.fn = "PythonAnalyzer" /\ call.stage = "analyzed"
    /\ call' = [call EXCEPT !.stage = "inspected"] @@ [issues |-> detect_issues(call.self)]
    /\ UNCHANGED <<pageVars, sessionVars, scanVars, pos, batch>>

InitPython == Idle /\ call \in {Args("PythonAnalyzer", src) : src \in PySources}
NextPython == PyConstruct \/ PyAnalyze \/ PyDetectIssues
SpecPython == InitPython /\ [][NextPython]_vars

\* ------------------------------------ a call of the parameter extraction
\* a, b=[1,2], c={"x":1}, d=[1,2,3], e=(1,2), g=None
ParamPool ==
    << Param("a", << >>),
       Param("b", <<"[", "1", ",", "2", "]">>),
       Param("c", <<"{", "\"x\"", ":", "1", "}">>),
       Param("d", <<"[", "1", ",", "2", ",", "3", "]">>),
       Param("e", <<"(", "1", ",", "2", ")">>),
       Param("g", <<"None">>) >>
Declarations ==
    {Pick(ParamPool, S) :
        S \in {T \in SUBSET (DOMAIN ParamPool) : Cardinality(T) <= MaxParams}}
ParamsCall ==
    Apply("extract_functions", extract_parameters(call.args.path, call.args.params))
InitParams ==
    Idle /\ call \in {Args("extract_functions", [path |-> path, params |-> params]) :
                         path \in ExtractionPaths, params \in Declarations}
SpecParams == InitParams /\ [][ParamsCall]_vars

\* ------------------------------------------------ a call of detect_language
DetectNames ==
    { <<"tools", "/", "script", ".py">>, <<"tools", "/", "Dockerfile">>,
      <<"Makefile">>, <<"requirements", "-dev", ".txt">>, <<".gitignore">>,
      <<"run">>, <<"notes", ".txt">> }
\* The empty text; '#!...python' over a '<?php'; '#!/bin/bash' over '<html';
\* a shebang of another interpreter over '<html'; '<?php' and '<html'; a Java
\* unit; an import and a brace; a React import in a Java-looking unit
DetectTexts ==
    { Text(FALSE, {}, {}),
      Text(TRUE, {"python"}, {"<?php"}),
      Text(TRUE, {"bash", "sh"}, {"<html"}),
      Text(TRUE, {}, {"<html"}),
      Text(FALSE, {}, {"<?php", "<html"}),
      Text(FALSE, {}, {"package ", "import ", "{"}),
      Text(FALSE, {}, {"import ", "{"}),
      Text(FALSE, {}, {"import React", "import ", "package ", "{"}) }
DetectFile(filename, content) ==
    BatchFile(filename, TRUE, "SyntaxError", 1, ContentHint(content))
    @@ [content |-> content]

\* llm_analyzer.detect_language(file_path, content); the reply is part of
\* the outcome only if the completion call was made
DetectCall(response) ==
    LET r == detect_language(call.args.client, call.args.file, response)
    IN  Apply("detect_language",
              IF "asked" \in DOMAIN r THEN r @@ [response |-> response] ELSE r)

InitDetect ==
    Idle /\ call \in {Args("detect_language",
                           [client |-> client, file |-> DetectFile(name, content)]) :
                         client \in BOOLEAN, name \in DetectNames,
                         content \in DetectTexts}
NextDetect == \E response \in DetectResponses : DetectCall(response)
SpecDetect == InitDetect /\ [][NextDetect]_vars

\* ------------------------------- generate_lineage_visualization_data
\* An entry of a list of the project structure: a str, or a dict
Str(text) == [is_str |-> TRUE, text |-> text]
Named(name) == [is_str |-> FALSE, name |-> name]
Unnamed == [is_str |-> FALSE]
Component(name, files) == [is_str |-> FALSE, name |-> name, files |-> files]
\* f"component_{i}" and the other ids: a prefix and a number
NodeId(prefix, i) == <<prefix, i>>
RootId == <<"project_root">>

\* nodes.append(node); node_id_map[id] = len(nodes) - 1
LineageNode(acc, id, label, type) ==
    [acc EXCEPT !.nodes = Append(@, [id |-> id, label |-> label, type |-> type]),
                !.node_id_map = DictSet(@, id, Len(acc.nodes))]
\* edges.append({"source": node_id_map[a], "target": node_id_map[b], ...});
\* a key that is not in node_id_map raises KeyError
LineageEdge(acc, a, b, type) ==
    IF ~DictHas(acc.node_id_map, a) \/ ~DictHas(acc.node_id_map, b)
    THEN [acc EXCEPT !.exc = "KeyError"]
    ELSE [acc EXCEPT !.edges = Append(@, [source |-> DictGet(acc.node_id_map, a, -1),
                                          target |-> DictGet(acc.node_id_map, b, -1),
                                          type |-> type])]
\* `x if isinstance(x, str) else x.get("name", f"Source {i}")`
LabelOf(item, fallback, i) ==
    IF item.is_str THEN <<item.text>> ELSE Get(item, "name", <<fallback, i>>)
\* The loop body for each index of a list, until something is raised
EachIndex(Body(_, _), acc, list) ==
    FoldLeft(LAMBDA a, k : IF a.exc # "none" THEN a ELSE Body(a, k - 1), acc,
             [k \in 1..Len(list) |-> k])

\* "Add key components as nodes": component.get on a str raises
\* AttributeError
LineageComponents(acc0, components, file_analyses) ==
    LET file(acc, component_id, file_path) ==
            IF \E f \in DOMAIN file_analyses : file_analyses[f].file = file_path
            THEN LET file_id == NodeId("file_", Len(acc.nodes))
                 IN  LineageEdge(LineageNode(acc, file_id, Basename(file_path), "file"),
                                 component_id, file_id, "contains")
            ELSE acc
        body(acc, i) ==
            LET component == components[i + 1]
                component_id == NodeId("component_", i)
                a1 == LineageNode(acc, component_id,
                                  Get(component, "name", <<"Component ", i>>), "component")
                a2 == LineageEdge(a1, RootId, component_id, "contains")
            IN  IF component.is_str THEN [acc EXCEPT !.exc = "AttributeError"]
                ELSE FoldLeft(LAMBDA a, file_path : file(a, component_id, file_path), a2,
                              Get(component, "files", << >>))
    IN  EachIndex(body, acc0, components)

\* "Add data sources"
LineageSources(acc0, sources) ==
    LET body(acc, i) ==
            LET source_id == NodeId("source_", i)
            IN  LineageEdge(LineageNode(acc, source_id,
                                        LabelOf(sources[i + 1], "Source ", i), "data_source"),
                            RootId, source_id, "data_input")
    IN  EachIndex(body, acc0, sources)

\* A variant that connects the first transformation to source_0 whether
\* there is a source or not
LineageTransformationsFromSource(acc0, sources, transformations) ==
    LET body(acc, i) ==
            LET transform_id == NodeId("transform_", i)
                a1 == LineageNode(acc, transform_id,
                                  LabelOf(transformations[i + 1], "Transform ", i),
                                  "data_transformation")
                from == IF i > 0 THEN NodeId("transform_", i - 1) ELSE NodeId("source_", 0)
            IN  IF DictHas(a1.node_id_map, from)
                THEN LineageEdge(a1, from, transform_id, "data_flow")
                ELSE [a1 EXCEPT !.edges = Append(@, [source |-> Len(a1.nodes),
                                                     target |-> Len(a1.nodes) - 1,
                                                     type |-> "data_flow"])]
    IN  EachIndex(body, acc0, transformations)

\* "Add data transformations": a chain, from the first source if there is one
LineageTransformations(acc0, sources, transformations) ==
    LET body(acc, i) ==
            LET transform_id == NodeId("transform_", i)
                a1 == LineageNode(acc, transform_id,
                                  LabelOf(transformations[i + 1], "Transform ", i),
                                  "data_transformation")
            IN  IF i > 0
                THEN LineageEdge(a1, NodeId("transform_", i - 1), transform_id, "data_flow")
                ELSE IF sources # << >>
                THEN LineageEdge(a1, NodeId("source_", 0), transform_id, "data_flow")
                ELSE a1
    IN  EachIndex(body, acc0, transformations)

\* "Add data sinks": from the last transformation, or else the first source
LineageSinks(acc0, sources, transformations, sinks) ==
    LET body(acc, i) ==
            LET sink_id == NodeId("sink_", i)
                a1 == LineageNode(acc, sink_id, LabelOf(sinks[i + 1], "Sink ", i),
                                  "data_sink")
            IN  IF transformations # << >>
                THEN LineageEdge(a1, NodeId("transform_", Len(transformations) - 1),
                                 sink_id, "data_flow")
                ELSE IF sources # << >>
                THEN LineageEdge(a1, NodeId("source_", 0), sink_id, "data_flow")
                ELSE a1
    IN  EachIndex(body, acc0, sinks)

\* "Add dependencies"
LineageDependencies(acc0, dependencies) ==
    LET body(acc, i) ==
            LET dep_id == NodeId("dependency_", i)
            IN  LineageEdge(LineageNode(acc, dep_id,
                                        LabelOf(dependencies[i + 1], "Dependency ", i),
                                        "dependency"),
                            RootId, dep_id, "depends_on")
    IN  EachIndex(body, acc0, dependencies)

\* LLMAnalyzer.generate_lineage_visualization_data: a project analysis
\* without 'project_structure' (an error dict) gives the root node alone
generate_lineage_visualization_data(project_analysis, file_analyses) ==
    LET structure == Get(project_analysis, "project_structure", NoAttrs)
        project_type == Get(structure, "project_type", <<"Unknown Project">>)
        data_flow == Get(structure, "data_flow", NoAttrs)
        sources == Get(data_flow, "sources", << >>)
        transformations == Get(data_flow, "transformations", << >>)
        sinks == Get(data_flow, "sinks", << >>)
        root == LineageNode([nodes |-> << >>, edges |-> << >>, node_id_map |-> << >>,
                             exc |-> "none"],
                            RootId, project_type, "project")
        a1 == LineageComponents(root, Get(structure, "key_components", << >>),
                                file_analyses)
        a2 == LineageSources(a1, sources)
        a3 == LineageTransformations(a2, sources, transformations)
        a4 == LineageSinks(a3, sources, transformations, sinks)
        a5 == LineageDependencies(a4, Get(structure, "dependencies", << >>))
    IN  IF a5.exc # "none" THEN Raise(a5.exc)
        ELSE Ok([nodes |-> a5.nodes, edges |-> a5.edges,
                 metadata |-> [project_type |-> project_type]])

\* ------------------------- a call of generate_lineage_visualization_data
Prefixes(list) == {SubSeq(list, 1, k) : k \in 0..(IF Len(list) < MaxItems
                                                  THEN Len(list) ELSE MaxItems)}
ComponentLists ==
    Prefixes(<< Component(<<"api">>, << <<"src", "/", "a", ".py">>, <<"b", ".py">> >>),
                Component(<<"db">>, << <<"b", ".py">>, <<"gone", ".py">> >>),
                [is_str |-> FALSE, files |-> << <<"src", "/", "a", ".py">> >>] >>)
    \cup { << Str("core") >> }
SourceLists == Prefixes(<< Str("orders.csv"), Named(<<"crm">>), Unnamed >>)
TransformLists == Prefixes(<< Named(<<"clean">>), Str("join"), Unnamed >>)
SinkLists == Prefixes(<< Str("warehouse"), Unnamed, Named(<<"report">>) >>)
DependencyLists == Prefixes(<< Str("pandas"), Named(<<"requests">>), Unnamed >>)
FileAnalysisLists ==
    { << >>,
      << [file |-> <<"b", ".py">>, language |-> "python"] >>,
      << [file |-> <<"src", "/", "a", ".py">>, language |-> "python"],
         [file |-> <<"b", ".py">>, language |-> "python"] >> }
ProjectAnalyses ==
    { [project_structure |->
           [project_type |-> <<"ETL">>, key_components |-> components,
            data_flow |-> [sources |-> sources, transformations |-> transformations,
                           sinks |-> sinks],
            dependencies |-> dependencies]] :
        components \in ComponentLists, sources \in SourceLists,
        transformations \in TransformLists, sinks \in SinkLists,
        dependencies \in DependencyLists }
    \cup { [error |-> "Error during project structure analysis"] }

LineageCall ==
    Apply("generate_lineage_visualization_data",
          generate_lineage_visualization_data(call.args.project_analysis,
                                              call.args.file_analyses))
InitLineage ==
    Idle /\ call \in {Args("generate_lineage_visualization_data",
                           [project_analysis |-> project_analysis,
                            file_analyses |-> file_analyses]) :
                         project_analysis \in ProjectAnalyses,
                         file_analyses \in FileAnalysisLists}
SpecLineage == InitLineage /\ [][LineageCall]_vars

\* ============================================================== properties
\* A result of analyze_codebase that is an analysis (no error, no exception)
HasAnalysis == "data_flow" \in DOMAIN results
\* The database hits a file record carries (a binary record carries none)
HitsOf(file) == Get(file, "db_types", << >>)
HasEdge(edges, u, v, type) ==
    \E i \in DOMAIN edges :
        edges[i].source = u /\ edges[i].target = v /\ edges[i].type = type
CorruptMessage == "Invalid or corrupted ZIP file"
CorruptRun == ~IsNone(uploaded) /\ uploaded.corrupt

\* C1: the returned graph has exactly one node of type database, with id
\* 'DB:<Kind>', for each database kind that at least one file hits, no
\* database node for any other kind, and for every file that hits a kind an
\* edge from the file to that node and an edge from that node to the file.
C1_NodeDedup ==
    HasAnalysis =>
        LET nodes == results.data_flow.graph.nodes
            edges == results.data_flow.graph.edges
            hits == results.db_connections
            hitKinds == UNION {Range(hits[i].v) : i \in DOMAIN hits}
            dbNodes(k) == {i \in DOMAIN nodes :
                              nodes[i].type = "database" /\ nodes[i].id = <<"DB:", k>>}
        IN  /\ \A k \in hitKinds : Cardinality(dbNodes(k)) = 1
            /\ \A i \in DOMAIN nodes :
                   nodes[i].type = "database" =>
                       \E k \in hitKinds : nodes[i].id = <<"DB:", k>>
            /\ \A i \in DOMAIN hits : \A k \in Range(hits[i].v) :
                   /\ \E e \in DOMAIN edges : /\ edges[e].source = hits[i].k
                                              /\ edges[e].target = <<"DB:", k>>
                   /\ \E e \in DOMAIN edges : /\ edges[e].source = <<"DB:", k>>
                                              /\ edges[e].target = hits[i].k
\* Two files hit the same kind, and one of them hits a second kind too
C1_Witness ==
    /\ HasAnalysis
    /\ \E i, j \in DOMAIN results.db_connections :
           /\ i # j
           /\ Range(results.db_connections[i].v) \cap Range(results.db_connections[j].v) # {}
           /\ Len(results.db_connections[i].v) > 1

\* C2: every edge of the returned edges list has a source and a target that
\* are ids of nodes of the returned nodes list.
C2_NoDanglingEdge ==
    HasAnalysis =>
        LET nodes == results.data_flow.graph.nodes
            edges == results.data_flow.graph.edges
            ids == {nodes[i].id : i \in DOMAIN nodes}
        IN  \A e \in DOMAIN edges : edges[e].source \in ids /\ edges[e].target \in ids
\* A graph with an edge of each of the three types
C2_Witness ==
    /\ HasAnalysis
    /\ \A t \in {"uses", "used_by", "imports"} :
           \E e \in DOMAIN results.data_flow.graph.edges :
               results.data_flow.graph.edges[e].type = t

\* C3: no node id occurs twice, every file of files_data is a node of type
\* file with its own has_db and db_types, and every database kind hit is a
\* node of type database, also when a file's path reads like a database id.
C3_NoIdCollision ==
    HasAnalysis =>
        LET nodes == results.data_flow.graph.nodes
            files == results.files
            hits == results.db_connections
            hitKinds == UNION {Range(hits[i].v) : i \in DOMAIN hits}
        IN  /\ \A i, j \in DOMAIN nodes : nodes[i].id = nodes[j].id => i = j
            /\ \A f \in DOMAIN files : \E i \in DOMAIN nodes :
                   /\ nodes[i].id = files[f].path
                   /\ nodes[i].type = "file"
                   /\ nodes[i].has_db = (HitsOf(files[f]) # << >>)
                   /\ nodes[i].db_types = HitsOf(files[f])
            /\ \A k \in hitKinds : \E i \in DOMAIN nodes :
                   nodes[i].id = <<"DB:", k>> /\ nodes[i].type = "database"

\* C4: a file is in etl_candidates exactly when it has a database hit and an
\* API hit among REST API, ETL Process, File System and Cloud Storage; it is
\* there once, with its own db_types and api_patterns.
C4_EtlCandidates ==
    HasAnalysis =>
        LET cands == results.data_flow.etl_candidates
            files == results.files
            qualifies(file) ==
                /\ HitsOf(file) # << >>
                /\ \E a \in Range(Get(file, "api_patterns", << >>)) :
                       a \in {"REST API", "ETL Process", "File System", "Cloud Storage"}
            entries(file) == {c \in DOMAIN cands : cands[c].file = file.path}
        IN  /\ \A f \in DOMAIN files :
                   IF qualifies(files[f])
                   THEN /\ Cardinality(entries(files[f])) = 1
                        /\ \A c \in entries(files[f]) :
                               /\ cands[c].db_types = files[f].db_types
                               /\ cands[c].api_patterns = files[f].api_patterns
                   ELSE entries(files[f]) = {}
            /\ \A c \in DOMAIN cands : \E f \in DOMAIN files : files[f].path = cands[c].file
\* A candidate next to a file with a database hit and only a GraphQL hit and
\* a file with API hits and no database hit
C4_Witness ==
    /\ HasAnalysis
    /\ results.data_flow.etl_candidates # << >>
    /\ \E f \in DOMAIN results.files :
           /\ HitsOf(results.files[f]) # << >>
           /\ Get(results.files[f], "api_patterns", << >>) = <<"GraphQL">>
    /\ \E f \in DOMAIN results.files :
           /\ "api_patterns" \in DOMAIN results.files[f]
           /\ HitsOf(results.files[f]) = << >>
           /\ results.files[f].api_patterns # << >>

\* C5: for a Python file that ast.parse rejects, none of extract_functions,
\* extract_classes, extract_variables and analyze_file raises, and no run of
\* analyze_codebase ends with an exception.
C5_ParseFailureContained ==
    /\ pc # "crashed"
    /\ (Opened /\ Current.readable /\ Current.content.parse = "SyntaxError"
        /\ LanguageOf(Suffix(Current.path)) = "Python") =>
           /\ ~Raised(extract_functions(Current.content, "Python"))
           /\ ~Raised(extract_classes(Current.content, "Python"))
           /\ ~Raised(extract_variables(Current.content, "Python"))
           /\ ~Raised(analyze_file(Current.content, Suffix(Current.path)))

C7_CollaboratorFailureContained ==
    /\ \A client \in BOOLEAN, r \in Responses :
           LET out == analyze_code_with_openai(client, r)
           IN  /\ ~Raised(out)
               /\ ~client => out.val = "OpenAI API key not configured"
               /\ (client /\ r.kind = "raise") => out.val = "Error analyzing code with OpenAI"
    /\ \A f \in DOMAIN BatchPool, d \in DetectResponses :
           LET file == BatchPool[f]
               language == detect_language(TRUE, file, d)
           IN  /\ ~Raised(language)
               /\ (AsksModel(file) /\ d.kind = "raise") => language.val = "unknown"
               /\ \A r \in Responses :
                      LET out == analyze_code(TRUE, file, BasicLanguage(Suffix(file.filename)),
                                              d, r)
                      IN  /\ ~Raised(out)
                          /\ r.kind = "raise" => "error" \in DOMAIN out.val
    /\ batch.pc # "off" =>
           LET done == SubSeq(batch.files, 1, batch.idx - 1)
               measured == SelectSeq(done, LAMBDA f : f.loaded /\ ~Raised(FileMetrics(f)))
               raising == SelectSeq(done, LAMBDA f : f.loaded /\ Raised(FileMetrics(f)))
           IN  /\ batch.pc # "failed"
               /\ batch.all_metrics = [i \in DOMAIN measured |->
                                          [file |-> measured[i].filename,
                                           language |-> BasicLanguage(Suffix(measured[i].filename)),
                                           metrics |-> FileMetrics(measured[i]).val]]
               /\ batch.warnings = [i \in DOMAIN raising |-> raising[i].filename]
               /\ (batch.pc = "done" /\ WantsLineage) =>
                      \/ "error" \in DOMAIN batch.project_lineage
                      \/ "project_structure" \in DOMAIN batch.project_lineage
\* The completion call failed for the fifth file of six, its analysis is the
\* error dict, and the sixth file was measured and analyzed after it
C7_Witness ==
    /\ batch.pc = "done" /\ Len(batch.files) = 6
    /\ Len(batch.all_llm_analyses) = 2
    /\ "error" \in DOMAIN batch.all_llm_analyses[1].analysis
    /\ batch.all_llm_analyses[1].file = batch.files[5].filename
    /\ "llm_analysis" \in DOMAIN batch.all_llm_analyses[2].analysis
    /\ Last(batch.all_metrics).file = batch.files[6].filename
    /\ "error" \in DOMAIN batch.project_lineage

\* C8: the step that records a file with is_binary runs no analysis on it,
\* leaves every aggregate as it was (the three flattened lists, the three
\* usage dicts, the three detected sets, total_lines), and the walk goes on
\* to the next file; no entry of an aggregate is ever tagged with the path of
\* a binary record.
C8_BinaryContributesNothing ==
    /\ [](\A i \in DOMAIN files_data :
              "is_binary" \in DOMAIN files_data[i] =>
                  LET path == files_data[i].path
                  IN  /\ path \notin analyzed
                      /\ \A x \in Range(all_functions) \cup Range(all_classes)
                                  \cup Range(all_variables) : x.file # path
                      /\ ~DictHas(db_connections, path)
                      /\ ~DictHas(api_usage, path)
                      /\ ~DictHas(framework_usage, path))
    /\ [][(Len(files_data') = Len(files_data) + 1
           /\ "is_binary" \in DOMAIN Last(files_data')) =>
              /\ analyzed' = analyzed
              /\ all_functions' = all_functions
              /\ all_classes' = all_classes
              /\ all_variables' = all_variables
              /\ db_connections' = db_connections
              /\ api_usage' = api_usage
              /\ framework_usage' = framework_usage
              /\ detected_databases' = detected_databases
              /\ detected_apis' = detected_apis
              /\ detected_frameworks' = detected_frameworks
              /\ total_lines' = total_lines
              /\ pc' = "walk" /\ pos' = pos + 1]_vars
\* A finished run in which a binary record is followed by an analyzed file
C8_Witness ==
    /\ HasAnalysis
    /\ \E i, j \in DOMAIN results.files :
           /\ i < j
           /\ "is_binary" \in DOMAIN results.files[i]
           /\ "is_binary" \notin DOMAIN results.files[j]
           /\ results.files[j].lines > 0
    /\ results.code_stats.total_lines > 0

\* C9: for every file and every database kind, the edge file -> 'DB:<k>' of
\* type uses exists exactly when the edge 'DB:<k>' -> file of type used_by
\* exists, and exactly when k is among the file's database hits; an edge
\* that starts or ends at a database node has one of these two types.
C9_UsesUsedByPairs ==
    HasAnalysis =>
        LET nodes == results.data_flow.graph.nodes
            edges == results.data_flow.graph.edges
            files == results.files
            dbIds == {nodes[i].id : i \in {j \in DOMAIN nodes : nodes[j].type = "database"}}
        IN  /\ \A f \in DOMAIN files : \A c \in DOMAIN DB_PATTERNS :
                   LET k == DB_PATTERNS[c].k
                       uses == HasEdge(edges, files[f].path, <<"DB:", k>>, "uses")
                       used_by == HasEdge(edges, <<"DB:", k>>, files[f].path, "used_by")
                   IN  /\ uses <=> used_by
                       /\ uses <=> k \in Range(HitsOf(files[f]))
            /\ \A e \in DOMAIN edges :
                   (edges[e].source \in dbIds \/ edges[e].target \in dbIds) =>
                       edges[e].type \in {"uses", "used_by"}

\* C10: the findings hold the High-confidence 'MVC Architecture' finding
\* with the directory-structure evidence whenever the lower-cased path
\* segments of the analyzed files hold model or models, view or views, and
\* controller or controllers, whichever files they come from.
C10_MvcBySegments ==
    HasAnalysis =>
        LET files == results.files
            segments == UNION {Range(PathParts(Lower(files[f].path))) : f \in DOMAIN files}
            has(words) == \E w \in words : <<w>> \in segments
        IN  (has({"model", "models"}) /\ has({"view", "views"})
             /\ has({"controller", "controllers"})) =>
                \E p \in DOMAIN results.architecture_patterns :
                    /\ results.architecture_patterns[p].name = "MVC Architecture"
                    /\ results.architecture_patterns[p].confidence = "High"
                    /\ results.architecture_patterns[p].evidence =
                           <<"Directory structure contains models, views, and controllers">>

\* What a returned detect_architecture_patterns call was given, read off the
\* scanned files themselves
ArchReturned == Returned("detect_architecture_patterns")
ScannedFiles == Range(call.args.scanned)
SegmentsHold(words) ==
    \E f \in ScannedFiles : \E w \in words : <<w>> \in Range(PathParts(Lower(f.path)))
DirectoryRule ==
    /\ SegmentsHold({"model", "models"})
    /\ SegmentsHold({"view", "views"})
    /\ SegmentsHold({"controller", "controllers"})
ClassNamed(kw) ==
    \E f \in ScannedFiles : \E i \in DOMAIN f.classes : HasKeyword(<<f.classes[i]>>, kw)
ClassNameRule == ClassNamed("model") /\ ClassNamed("view") /\ ClassNamed("controller")
PathHolds(f, kws) == \E kw \in kws : HasKeyword(f.path, kw)
FilesWhere(Test(_)) == Cardinality({f \in ScannedFiles : Test(f)})
FindingsNamed(name) == SelectSeq(call.ret, LAMBDA p : p.name = name)
Emitted(name, confidence) ==
    /\ Len(FindingsNamed(name)) = 1
    /\ FindingsNamed(name)[1].confidence = confidence

\* C11: the result holds at most one MVC finding; the Medium-confidence one
\* is emitted exactly when the directory rule for High fails and some class
\* name holds 'model', some holds 'view' and some holds 'controller'; with
\* models and controllers directories, no views directory and no such class
\* names there is no MVC finding.
C11_MvcMediumByClassNames ==
    ArchReturned =>
        /\ Len(FindingsNamed("MVC Architecture")) <= 1
        /\ Emitted("MVC Architecture", "Medium") <=> (~DirectoryRule /\ ClassNameRule)
        /\ ( /\ SegmentsHold({"model", "models"})
             /\ SegmentsHold({"controller", "controllers"})
             /\ ~SegmentsHold({"view", "views"})
             /\ ~ClassNameRule ) => FindingsNamed("MVC Architecture") = << >>

\* C12: each of the six findings is in the result, once, exactly when the
\* condition of its own rule holds, and the result holds nothing else.
C12_RulesIndependent ==
    ArchReturned =>
        LET docker(f) == \/ HasKeyword(Basename(f.path), "dockerfile")
                         \/ HasKeyword(Basename(f.path), "docker-compose")
            service(f) == PathHolds(f, {"service"})
            api(f) == PathHolds(f, {"api", "endpoint"})
            rest(f) == "REST API" \in Range(f.apis)
            event(f) == PathHolds(f, {"event", "listener", "subscriber",
                                      "publisher", "handler"})
            queue(f) == "Message Queue" \in Range(f.apis)
            etl(f) == PathHolds(f, {"etl", "pipeline", "transform", "processor"})
            manyDbs(f) == Cardinality(Range(f.dbs)) > 1
            frontend(f) == Range(f.frameworks) \cap {"React", "Angular", "Vue"} # {}
            backend(f) ==
                Range(f.frameworks) \cap {"Django", "Flask", "Express", "Spring"} # {}
            rule == [mvc |-> DirectoryRule \/ ClassNameRule,
                     micro |-> FilesWhere(docker) > 2 /\ FilesWhere(service) > 3,
                     rest |-> FilesWhere(api) > 3 \/ FilesWhere(rest) > 3,
                     event |-> FilesWhere(event) > 3 \/ FilesWhere(queue) > 1,
                     etl |-> FilesWhere(etl) > 1 \/ FilesWhere(manyDbs) > 1,
                     cs |-> FilesWhere(frontend) > 0 /\ FilesWhere(backend) > 0]
            count(name) == Len(FindingsNamed(name))
            one(b) == IF b THEN 1 ELSE 0
        IN  /\ count("MVC Architecture") = one(rule.mvc)
            /\ count("Microservices Architecture") = one(rule.micro)
            /\ count("REST API Architecture") = one(rule.rest)
            /\ count("Event-driven Architecture") = one(rule.event)
            /\ count("Data Pipeline/ETL Architecture") = one(rule.etl)
            /\ count("Client-Server Architecture") = one(rule.cs)
            /\ Len(call.ret) = one(rule.mvc) + one(rule.micro) + one(rule.rest)
                               + one(rule.event) + one(rule.etl) + one(rule.cs)

\* C13: the High-confidence 'REST API Architecture' finding is in the result
\* exactly when more than 3 files have 'api' or 'endpoint' in their path or
\* more than 3 files are tagged 'REST API'.
C13_RestApiThreshold ==
    ArchReturned =>
        LET api_files == FilesWhere(LAMBDA f : PathHolds(f, {"api", "endpoint"}))
            tagged == FilesWhere(LAMBDA f : "REST API" \in Range(f.apis))
        IN  /\ Emitted("REST API Architecture", "High") <=> (api_files > 3 \/ tagged > 3)
            /\ (api_files <= 3 /\ tagged <= 3) => FindingsNamed("REST API Architecture") = << >>
\* Four files under api/ or endpoints/ and three tagged files: the finding
\* is there; the tagged files alone, being three, would not give it.
C13_Witness ==
    /\ ArchReturned
    /\ FilesWhere(LAMBDA f : PathHolds(f, {"api", "endpoint"})) = 4
    /\ FilesWhere(LAMBDA f : "REST API" \in Range(f.apis)) = 3
    /\ Emitted("REST API Architecture", "High")

\* A scan result lists entries of its catalog without repetition and in the
\* catalog's order: each entry comes later in the catalog than the one before
InCatalogOrder(result, catalog) ==
    /\ \A i \in DOMAIN result : \E c \in DOMAIN catalog : catalog[c].k = result[i]
    /\ \A i, j \in DOMAIN result :
           i < j => \E c, d \in DOMAIN catalog :
                        c < d /\ catalog[c].k = result[i] /\ catalog[d].k = result[j]
\* The entries of a catalog that have a pattern occurring in the text
KindsHit(catalog, text) == {catalog[c].k : c \in {d \in DOMAIN catalog : catalog[d].v \cap text # {}}}
\* The framework catalog as one list of category/name pairs in its order
FrameworkList ==
    Flatten([c \in DOMAIN FRAMEWORK_PATTERNS |->
                [f \in DOMAIN FRAMEWORK_PATTERNS[c].v |->
                    [k |-> [category |-> FRAMEWORK_PATTERNS[c].k,
                            name |-> FRAMEWORK_PATTERNS[c].v[f].k],
                     v |-> FRAMEWORK_PATTERNS[c].v[f].v]]])

\* C14: each of the three scans returns exactly the entries of its catalog
\* that have a pattern occurring in the text, each once, in the order the
\* catalog declares them (frameworks by category, then by name within the
\* category); a text with no pattern gives three empty lists; a second scan
\* of the same text returns the same lists.
C14_ScanOrderStable ==
    (call.fn = "scan" /\ call.stage # "args") =>
        /\ InCatalogOrder(call.ret.dbs, DB_PATTERNS)
        /\ Range(call.ret.dbs) = KindsHit(DB_PATTERNS, call.args)
        /\ InCatalogOrder(call.ret.apis, API_PATTERNS)
        /\ Range(call.ret.apis) = KindsHit(API_PATTERNS, call.args)
        /\ InCatalogOrder(call.ret.frameworks, FrameworkList)
        /\ Range(call.ret.frameworks) = KindsHit(FrameworkList, call.args)
        /\ call.args = {} =>
               call.ret = [dbs |-> << >>, apis |-> << >>, frameworks |-> << >>]
        /\ call.stage = "repeated" => call.again = call.ret
\* A text scanned twice in which two patterns of one kind, a pattern of two
\* kinds and a framework pattern occur: the kinds come once each, in an
\* order that is the catalog's and not the alphabet's
C14_Witness ==
    /\ call.fn = "scan" /\ call.stage = "repeated"
    /\ call.args = {"pymysql", "mysql.connector", "S3"}
    /\ call.ret.dbs = <<"MySQL">>
    /\ call.ret.apis = <<"File System", "Cloud Storage">>

\* The metrics and the issues a use of PythonAnalyzer has reported so far
Analyzed == call.fn = "PythonAnalyzer" /\ call.stage \in {"analyzed", "inspected"}
Inspected == call.fn = "PythonAnalyzer" /\ call.stage = "inspected"

\* C15: whenever the structure that analyze() reports has zero functions and
\* zero classes, the docstring_coverage it reports is 100.
C15_DocstringCoverageVacuous ==
    (/\ Analyzed
     /\ call.metrics.structure.functions = 0
     /\ call.metrics.structure.classes = 0) =>
        Same(call.metrics.documentation.docstring_coverage, Whole(100))

\* C16: the debt_ratio that analyze() reports lies in [0, 100], for texts
\* that parse and texts that do not, also when the low-comment, the
\* complexity-density, the docstring-coverage and the long-function penalty
\* are all added.
C16_DebtRatioBounded ==
    Analyzed =>
        /\ ~Less(call.metrics.maintainability.debt_ratio, Whole(0))
        /\ ~Less(Whole(100), call.metrics.maintainability.debt_ratio)
\* A text that parses, with no comment line, more than one branch per ten
\* code lines, no docstring and only long functions: all four penalties
C16_Witness ==
    /\ Analyzed /\ call.args.parse = "ok"
    /\ call.args.comments = 0
    /\ call.metrics.complexity.cyclomatic * 10 > call.metrics.size.lines_code
    /\ Less(call.metrics.documentation.docstring_coverage, Whole(50))
    /\ LongerThan(call.args, 30) = call.args.funcs /\ call.args.funcs # << >>
    /\ Same(call.metrics.maintainability.debt_ratio, Whole(80))

\* C18: for every function of a text that parses, detect_issues() returns
\* exactly one Medium/Bug Risk issue at that function when one of its
\* parameter defaults is a list, dict or set literal, and no Bug Risk issue
\* at it when none is.
C18_MutableDefaultOncePerFunction ==
    (Inspected /\ call.args.parse = "ok") =>
        \A i \in DOMAIN call.args.funcs :
            LET f == call.args.funcs[i]
                about == SelectSeq(call.issues,
                                   LAMBDA x : /\ x.category = "Bug Risk"
                                              /\ x.line = LineOf(call.args, i)
                                              /\ f.name \in Range(x.message))
                mutable == \E d \in Range(f.defaults) \cup Range(f.kw_defaults) :
                               d \in MutableLiterals
            IN  /\ mutable => (Len(about) = 1 /\ about[1].severity = "MEDIUM")
                /\ ~mutable => about = << >>

\* The files of the batch that the loop has been through
BatchDone == IF batch.pc = "off" THEN << >> ELSE SubSeq(batch.files, 1, batch.idx - 1)
AllZero(r) == \A k \in DOMAIN r : r[k] = 0

\* C17: for every Python file of the batch whose text fails to parse, the
\* metrics list has one entry for it with size, structure and complexity all
\* zero, maintainability score 0 and debt_ratio 100, the issues hold exactly
\* one issue for it, of severity HIGH and category Syntax, and it is counted
\* in file_count.
C17_UnparseableSentinel ==
    \A i \in DOMAIN BatchDone :
        LET file == BatchDone[i]
            entries == SelectSeq(batch.all_metrics, LAMBDA e : e.file = file.filename)
            issues == SelectSeq(batch.all_issues, LAMBDA x : x.file = file.filename)
            m == entries[1].metrics
        IN  ( /\ file.loaded
              /\ BasicLanguage(Suffix(file.filename)) = "python"
              /\ file.parse # "ok" ) =>
                /\ Len(entries) = 1
                /\ AllZero(m.size) /\ AllZero(m.structure) /\ AllZero(m.complexity)
                /\ Same(m.maintainability.score, Whole(0))
                /\ Same(m.maintainability.debt_ratio, Whole(100))
                /\ Len(issues) = 1
                /\ issues[1].severity = "HIGH" /\ issues[1].category = "Syntax"
                /\ batch.file_count = Len(batch.all_metrics)

\* C19: on every path of extract_functions a declaration is recorded with
\* exactly the names of its parameters, in order: a comma inside the
\* brackets, braces or parentheses of a default value gives no extra entry.
C19_TopLevelCommasOnly ==
    Returned("extract_functions") =>
        /\ call.ret.matched
        /\ call.ret.parameters =
               [i \in DOMAIN call.args.params |-> <<call.args.params[i].name>>]

\* C20: detect_language answers from the extension table if the extension
\* is in it; else from the special base names, whatever their case; else
\* from the shebang line; else from the markers in the text; it makes the
\* completion call only if none of these answers and a client is set, and
\* then answers 'unknown' if the call fails; with no client and no answer it
\* says 'unknown', so that without a client the answer depends on the path
\* and the text alone.
C20_DetectionPrecedence ==
    Returned("detect_language") =>
        LET file == call.args.file
            ext == Suffix(file.filename)
            known == DictHas(SUPPORTED_LANGUAGES, ext)
            special == SpecialName(file.filename)
            shebang == ShebangHint(file.content)
            marker == MarkerHint(file.content)
            asked == "asked" \in DOMAIN call.ret
            language == call.ret.val
            answers(b, value) == b => (language = value /\ ~asked)
        IN  /\ ~Raised(call.ret)
            /\ answers(known, DictGet(SUPPORTED_LANGUAGES, ext, "unknown"))
            /\ answers(~known /\ special # "none", special)
            /\ answers(~known /\ special = "none" /\ shebang # "none", shebang)
            /\ answers(~known /\ special = "none" /\ shebang = "none" /\ marker # "none",
                       marker)
            /\ (~known /\ special = "none" /\ shebang = "none" /\ marker = "none") =>
                   /\ asked <=> call.args.client
                   /\ ~asked => language = "unknown"
                   /\ (asked /\ call.ret.response.kind = "raise") => language = "unknown"
                   /\ (asked /\ call.ret.response = [kind |-> "reply", content |-> " Ruby "])
                          => language = "ruby"
\* A client is set, the file 'run' has a '#!/bin/bash' line over an '<html'
\* marker: the answer is bash and the model was not asked
C20_Witness ==
    /\ Returned("detect_language")
    /\ call.args.client
    /\ call.args.file.filename = <<"run">>
    /\ call.args.file.content = Text(TRUE, {"bash", "sh"}, {"<html"})
    /\ call.ret = Ok("bash")

\* C21: for a text that parses and has code lines, the debt_ratio that
\* analyze() reports is 20 times the number of the conditions that hold
\* among: comment ratio below 0.1, complexity per code line above 0.1,
\* docstring coverage below 50, at least one function longer than 30
\* lines; capped at 100.
C21_DebtIsTwentyPerCondition ==
    (Analyzed /\ call.args.parse = "ok" /\ call.metrics.size.lines_code > 0) =>
        LET m == call.metrics
            code == m.size.lines_code
            low_comments == m.size.lines_comment * 10 < code
            dense == m.complexity.cyclomatic * 10 > code
            undocumented == Less(m.documentation.docstring_coverage, Whole(50))
            long == \E i \in DOMAIN call.args.funcs : call.args.funcs[i].span > 30
            holding == Cardinality({c \in {<<1, low_comments>>, <<2, dense>>,
                                           <<3, undocumented>>, <<4, long>>} : c[2]})
        IN  Same(m.maintainability.debt_ratio, Whole(20 * holding))

\* C22: for every function of a text that parses, detect_issues() returns
\* one Medium/Maintainability issue at that function when it spans more
\* than 50 lines (51 lines: yes, 50: no) and none otherwise, and one
\* Medium/Design issue at it when it has more than 5 parameters (6: yes,
\* 5: no) and none otherwise.
C22_LongAndWideFunctions ==
    (Inspected /\ call.args.parse = "ok") =>
        \A i \in DOMAIN call.args.funcs :
            LET f == call.args.funcs[i]
                lines == f.span + 1
                parameters == f.nargs + Len(f.kw_defaults)
                about(category) ==
                    SelectSeq(call.issues,
                              LAMBDA x : /\ x.category = category
                                         /\ x.line = LineOf(call.args, i)
                                         /\ f.name \in Range(x.message))
                once(b, category) ==
                    IF b THEN /\ Len(about(category)) = 1
                              /\ about(category)[1].severity = "MEDIUM"
                    ELSE about(category) = << >>
            IN  /\ once(lines > 50, "Maintainability")
                /\ once(parameters > 5, "Design")

\* C23: for a text that parses, the cognitive complexity that analyze()
\* reports is the number of functions and classes plus, for each if and try
\* statement, 1 plus the number of control structures that enclose it in
\* its function: statements that follow each other in a function body have
\* none around them and add 1 each.
C23_CognitiveByNestingDepth ==
    (Analyzed /\ call.args.parse = "ok") =>
        LET src == call.args
            depth == 0
            control(f) == f.branches + (IF f.empty_except THEN 1 ELSE 0)
        IN  call.metrics.complexity.cognitive =
                Len(src.funcs) + Len(src.classes)
                + Sum([i \in DOMAIN src.funcs |-> control(src.funcs[i]) * (1 + depth)])

\* The import tokens analyze_data_flow extracts from a file record: those
\* its language's import pattern finds in its text, none for a language
\* without a pattern
ImportTokens(file) ==
    IF /\ FirstWord(file.language) \in ImportLanguages
       /\ DiskFile(disk, file.path).readable
    THEN Range(DiskFile(disk, file.path).content.imports)
    ELSE {}

\* C24: the returned graph has an edge F -> G of type imports exactly when G
\* is another analyzed file than F and some import token extracted from F
\* matches G's path (token + .py/.js/.ts/.java is a suffix of it, or the
\* token occurs in it); no file has an imports edge to itself, a file whose
\* language has no import pattern has none, and a pair has at most one.
C24_ImportEdges ==
    (HasAnalysis /\ pc = "returned") =>
        LET edges == results.data_flow.graph.edges
            files == results.files
            imports == {e \in DOMAIN edges : edges[e].type = "imports"}
        IN  /\ \A f, g \in DOMAIN files :
                   HasEdge(edges, files[f].path, files[g].path, "imports")
                   <=> /\ files[f].path # files[g].path
                       /\ \E imp \in ImportTokens(files[f]) :
                              ImportMatches(imp, files[g].path)
            /\ \A e \in imports : edges[e].source # edges[e].target
            /\ \A e1, e2 \in imports :
                   (edges[e1].source = edges[e2].source
                    /\ edges[e1].target = edges[e2].target) => e1 = e2

\* C25: in the loop over n selected files, analyze_code is called only at
\* positions idx with idx mod 5 = 0 or idx = n and only for a file whose
\* content was loaded, at most once per position, so at most n div 5 + 1
\* times in a run; a call that fails does not end the loop: every later
\* position is still handled and its call is still made.
C25_SampledRequests ==
    batch.pc # "off" =>
        LET n == Len(batch.files)
            requests == batch.requests
            due(i) == /\ batch.llm_analyzer /\ batch.files[i].loaded
                      /\ (i % 5 = 0 \/ i = n)
                      /\ ~Raised(FileMetrics(batch.files[i]))
        IN  /\ \A r \in DOMAIN requests :
                   /\ requests[r] \in 1..n
                   /\ requests[r] % 5 = 0 \/ requests[r] = n
                   /\ batch.files[requests[r]].loaded
                   /\ \A q \in DOMAIN requests : requests[q] = requests[r] => q = r
            /\ Len(requests) <= n \div 5 + 1
            /\ batch.pc # "failed"
            /\ \A i \in 1..(batch.idx - 1) : due(i) => i \in Range(requests)
            /\ Len(batch.all_llm_analyses) = Len(requests)
\* Six files, one of them not loaded: the call for the fifth failed, the
\* call for the sixth was made after it
C25_Witness ==
    /\ batch.pc = "done" /\ Len(batch.files) = 6
    /\ \E i \in 1..4 : ~batch.files[i].loaded
    /\ batch.requests = <<5, 6>>
    /\ "error" \in DOMAIN batch.all_llm_analyses[1].analysis
    /\ "llm_analysis" \in DOMAIN batch.all_llm_analyses[2].analysis

\* The paths analyze_codebase makes a file record for: the entries of the
\* archive that are not hidden and have no binary extension
RecordedPaths(archive) ==
    {e.path : e \in {x \in Range(archive.files) :
                        ~IsHidden(x.path) /\ Suffix(x.path) \notin BINARY_EXTENSIONS}}
\* The step of a rerun that reads the uploader
RerunStep == runs' = runs + 1

\* C26: scan_results, scan_time and last_file_hash are set or unset
\* together; a step that writes one of them writes all three, at the end of
\* a scan that returned no error, with the results of that scan and the MD5
\* of the archive it ran on; so whenever scan_results is set, last_file_hash
\* is the MD5 of the archive whose file records scan_results holds.
C26_SessionWrittenTogether ==
    /\ [](/\ IsNone(scan_results) <=> IsNone(last_file_hash)
          /\ IsNone(scan_results) <=> IsNone(scan_time)
          /\ ~IsNone(scan_results) =>
                 /\ "error" \notin DOMAIN scan_results
                 /\ {scan_results.files[i].path : i \in DOMAIN scan_results.files}
                        = RecordedPaths(last_file_hash.digest_of))
    /\ [][(\/ scan_results' # scan_results
           \/ scan_time' # scan_time
           \/ last_file_hash' # last_file_hash) =>
              /\ pc = "returned" /\ "error" \notin DOMAIN results
              /\ scan_results' = results
              /\ scan_time' # scan_time /\ ~IsNone(scan_time')
              /\ last_file_hash' = Md5(uploaded)]_vars
\* The second rerun of a session ended a scan without an error: its
\* results, its time and the hash of its archive are the stored ones
C26_Witness ==
    /\ pc = "idle" /\ runs = 2
    /\ ~IsNone(scan_results) /\ scan_results.files # << >>
    /\ scan_time = [seconds_of_run |-> 2]
    /\ last_file_hash = Md5(uploaded)

\* C27: a rerun with an archive whose MD5 is the stored last_file_hash starts
\* no scan and ends with scan_results, scan_time and last_file_hash as they
\* were; a rerun with an archive of another MD5 starts a scan, and a scan
\* starts at no other step, so one per such rerun.
C27_SameHashSkipsScan ==
    /\ [][(RerunStep /\ ~IsNone(uploaded')) =>
              IF last_file_hash = Md5(uploaded')
              THEN /\ pc' = "idle"
                   /\ sessionVars' = sessionVars /\ results' = results
                   /\ scanVars' = scanVars
              ELSE pc' = "extract" /\ sessionVars' = sessionVars]_vars
    /\ [][(pc' = "extract" /\ pc # "extract") => RerunStep]_vars
    /\ [][pc = "extract" => pc' # "extract"]_vars
\* The first rerun stored a scan, the second found the same archive in the
\* uploader and ended without a scan
C27_Witness ==
    /\ pc = "idle" /\ runs = 2
    /\ ~IsNone(uploaded) /\ last_file_hash = Md5(uploaded)
    /\ scan_time = [seconds_of_run |-> 1]

\* C28: no step of a scan whose result carries an error changes
\* scan_results, scan_time or last_file_hash, so what an earlier scan of
\* another archive stored is still stored, and is what the page shows, when
\* the rerun has ended; the hash of the failed archive is not the stored
\* one, and a next rerun with the same archive scans it again.
C28_FailedScanKeepsSession ==
    /\ [][(pc = "returned" /\ "error" \in DOMAIN results) =>
              /\ sessionVars' = sessionVars /\ pc' = "idle"
              /\ last_file_hash # Md5(uploaded)]_vars
    /\ [][(RerunStep /\ pc' = "extract") => sessionVars' = sessionVars]_vars
    /\ [][(pc = "extract" /\ pc' = "returned") => sessionVars' = sessionVars]_vars
    /\ [][(/\ pc = "idle" /\ shown_errors # << >> /\ ~IsNone(results)
           /\ "error" \in DOMAIN results
           /\ RerunStep /\ uploaded' = uploaded) => pc' = "extract"]_vars
\* The first rerun stored the scan of one archive; the second scanned
\* another, showed its error and left the stored scan of the first
C28_Witness ==
    /\ pc = "idle" /\ runs = 2
    /\ shown_errors # << >> /\ "error" \in DOMAIN results
    /\ ~IsNone(scan_results) /\ scan_results.files # << >>
    /\ scan_time = [seconds_of_run |-> 1]
    /\ last_file_hash # Md5(uploaded)
    /\ {scan_results.files[i].path : i \in DOMAIN scan_results.files}
           = RecordedPaths(last_file_hash.digest_of)

\* C29: in what generate_lineage_visualization_data returns, no two nodes
\* have the same id, the first node is 'project_root', and the source and
\* the target of every edge are indexes of the nodes list (0 <= index <
\* number of nodes), also for the data_flow edges of the first
\* transformation and of the sinks when there are no sources or no
\* transformations.
C29_LineageGraphWellFormed ==
    (Returned("generate_lineage_visualization_data") /\ ~Raised(call.ret)) =>
        LET nodes == call.ret.val.nodes
            edges == call.ret.val.edges
        IN  /\ \A i, j \in DOMAIN nodes : nodes[i].id = nodes[j].id => i = j
            /\ nodes # << >> /\ nodes[1].id = <<"project_root">>
            /\ \A e \in DOMAIN edges :
                   /\ edges[e].source \in 0..(Len(nodes) - 1)
                   /\ edges[e].target \in 0..(Len(nodes) - 1)
\* No source, two transformations and a sink: the first transformation has
\* no edge into it, the sink hangs on the second
C29_Witness ==
    /\ Returned("generate_lineage_visualization_data") /\ ~Raised(call.ret)
    /\ "project_structure" \in DOMAIN call.args.project_analysis
    /\ call.args.project_analysis.project_structure.data_flow.sources = << >>
    /\ Len(call.args.project_analysis.project_structure.data_flow.transformations) = 2
    /\ \E n \in DOMAIN call.ret.val.nodes : call.ret.val.nodes[n].type = "file"
    /\ {<<call.ret.val.edges[e].source, call.ret.val.edges[e].target>> :
           e \in {x \in DOMAIN call.ret.val.edges :
                     call.ret.val.edges[x].type = "data_flow"}}
       = LET t == CHOOSE n \in DOMAIN call.ret.val.nodes :
                      call.ret.val.nodes[n].id = <<"transform_", 0>>
         IN  {<<t - 1, t>>, <<t, t + 1>>}

\* The file records that are not marked is_binary
TextRecords(files) == SelectSeq(files, LAMBDA f : ~Get(f, "is_binary", FALSE))

\* C30: whatever files analyze_codebase has folded, the flattened lists
\* agree with the file records: the numbers of functions and of classes are
\* the sums of the 'functions' and 'classes' counts of the non-binary
\* records, every function, class and variable carries the path of a
\* non-binary record, and db_connections has a key for exactly the files
\* whose record has has_db_connection; in the returned analysis total_files
\* is the number of file records and total_functions and total_classes are
\* those sums.
C30_AggregatesAgree ==
    LET text == TextRecords(files_data)
        paths == {text[i].path : i \in DOMAIN text}
        functions == Sum([i \in DOMAIN text |-> text[i].functions])
        classes == Sum([i \in DOMAIN text |-> text[i].classes])
    IN  /\ Len(all_functions) = functions
        /\ Len(all_classes) = classes
        /\ \A i \in DOMAIN all_functions : all_functions[i].file \in paths
        /\ \A i \in DOMAIN all_classes : all_classes[i].file \in paths
        /\ \A i \in DOMAIN all_variables : all_variables[i].file \in paths
        /\ {db_connections[i].k : i \in DOMAIN db_connections}
               = {files_data[i].path :
                      i \in {j \in DOMAIN files_data :
                                Get(files_data[j], "has_db_connection", FALSE)}}
        /\ (HasAnalysis /\ pc = "returned") =>
               /\ results.files = files_data
               /\ results.functions = all_functions /\ results.classes = all_classes
               /\ results.variables = all_variables
               /\ results.db_connections = db_connections
               /\ results.code_stats.total_files = Len(files_data)
               /\ results.code_stats.total_functions = functions
               /\ results.code_stats.total_classes = classes
\* A returned analysis with a binary record, a record with a database
\* connection and one without, and a function
C30_Witness ==
    /\ HasAnalysis /\ pc = "returned"
    /\ \E i \in DOMAIN results.files : Get(results.files[i], "is_binary", FALSE)
    /\ \E i \in DOMAIN results.files : Get(results.files[i], "has_db_connection", FALSE)
    /\ \E i \in DOMAIN TextRecords(results.files) :
           ~TextRecords(results.files)[i].has_db_connection
    /\ results.code_stats.total_files = 3
    /\ results.code_stats.total_functions >= 1
====
